---- MODULE Spec2Model ----
(***************************************************************************)
(* CodeReserve: the escrow ledger (CodeReserveEscrow.sol), the off-chain   *)
(* signing authority (services/blockchain.ts) and the deposit mirror       *)
(* (routes/deposits.ts).                                                   *)
(*                                                                         *)
(* keccak256 is modelled as an injective constructor (a tuple of its       *)
(* inputs), an ECDSA signature as the pair (signing key, signed payload).  *)
(***************************************************************************)
EXTENDS Integers, Sequences, FiniteSets, Bags, TLC

\* ------------------------------------------------------------------ bounds
MaxDeposits == 2        \* successful deposit() calls explored
MaxWarps == 2           \* block.timestamp advances explored
MaxMirror == 2          \* deposit rows the mirror table may hold
MaxFixtures == 1        \* deposit rows a test inserts before calling a route
MaxHandlers == 2        \* API requests suspended at an await at one time

\* --------------------------------------------------------------- constants
TIMEOUT_DURATION == 2592000
SigLifetime == 3600
Stake == 5000000
StartTime == TIMEOUT_DURATION

\* ----------------------------------------------------------------- domains
ZeroAddress == "0x0"
Escrow == "escrow"
Users == {"alice", "bob"}
TreasuryAddr == "treasury"
Holders == Users \cup {TreasuryAddr, Escrow}
RepoIds == {"owner/repo"}
PrNumbers == {42}
Amounts == {0, Stake}
Treasuries == {ZeroAddress, TreasuryAddr}
Ids == 0..MaxDeposits
NoId == -1
Warps == {SigLifetime, TIMEOUT_DURATION}
Types == {"Refund", "Slash"}

SignerKey == "signerKey"
BadKey == "badKey"
Keys == {SignerKey, BadKey}
signer == "signerAddr"

NoSig == [key |-> "none", msg |-> <<>>]
Null == "null"
PrIds == {"pr1", "pr2"}
NoAuth == "anonymous"
Maintainers == {"bob"}
TxHashInputs == {"0xabc", "malformed"}
ReasonLengths == {9, 10, 501}
NoCall ==
    [op |-> "none", depositId |-> NoId, from |-> ZeroAddress,
     to |-> ZeroAddress, amount |-> 0, digest |-> <<>>, auth |-> NoSig]
NoInner == [op |-> "none", depositId |-> NoId, result |-> "none"]
NoRequest ==
    [op |-> "none", http |-> 0, signature |-> NoSig, deadline |-> 0,
     depositId |-> NoId]

VARIABLES
    deposits,        \* mapping(uint256 => Deposit)
    nextDepositId,   \* uint256
    usedSignatures,  \* mapping(bytes32 => bool), as the set of true keys
    balances,        \* token balance of every holder
    now,             \* block.timestamp
    warps,           \* number of timestamp advances so far
    payouts,         \* per deposit id, the token transfers made out of the ledger
    last,            \* the last ledger call and its outcome
    pool,            \* submitted, not yet ordered transactions of a race
    raceLog,         \* outcomes of the raced transactions, in execution order
    mirror,          \* rows of the off-chain `deposits' table, in insertion order
    prs,             \* rows of the off-chain `pull_requests' table
    mlast,           \* the last API request and its response
    entered,         \* ReentrancyGuard: a nonReentrant function is executing
    inflight,        \* the external token call the executing function is in
    inner,           \* the latest call made back into the ledger from inside it
    handlers         \* API requests suspended between their select and their write

ledgerVars == <<deposits, nextDepositId, usedSignatures, balances, payouts>>
chainVars == <<deposits, nextDepositId, usedSignatures, balances, payouts,
               now, warps, last>>
raceVars == <<pool, raceLog>>
offChainVars == <<mirror, prs, mlast>>
reentryVars == <<entered, inflight, inner>>
handlerVars == <<handlers>>
vars == <<deposits, nextDepositId, usedSignatures, balances, now, warps,
          payouts, last, pool, raceLog, mirror, prs, mlast,
          entered, inflight, inner, handlers>>

\* ------------------------------------------------------------ hashing
DOMAIN_SEPARATOR ==
    <<"EIP712Domain", "CodeReserveEscrow", "1", "chainid", Escrow>>

TypeHashUntyped(type) == "Refund(uint256 depositId,uint256 deadline)"

TypeHash(type) ==
    IF type = "Refund" THEN "Refund(uint256 depositId,uint256 deadline)"
    ELSE "Slash(uint256 depositId,uint256 deadline)"

\* keccak256("\x19\x01" ++ DOMAIN_SEPARATOR ++ keccak256(typehash, id, deadline))
Digest(type, depositId, deadline) ==
    <<"\\x19\\x01", DOMAIN_SEPARATOR, <<TypeHash(type), depositId, deadline>>>>

\* EIP-191 personal-message hash of a 32-byte payload
EthSignedMessageHash(payload) ==
    <<"\\x19Ethereum Signed Message:\\n32", payload>>

KeyAddress(key) == IF key = SignerKey THEN signer ELSE "badAddr"

Sign(key, payload) == [key |-> key, msg |-> payload]

RecoverAnyKey(hash, sig) ==
    IF sig.msg = hash THEN signer ELSE "unrelatedAddr"

\* ECDSA.recover: the address of the key when the signature is over `hash',
\* some unrelated address otherwise
Recover(hash, sig) ==
    IF sig.msg = hash THEN KeyAddress(sig.key) ELSE "unrelatedAddr"

\* ------------------------------------------------------------ token
TokenTransferOkAnyRecipient(from, to, amount) ==
    /\ from # ZeroAddress
    /\ balances[from] >= amount

TokenTransferOk(from, to, amount) ==
    /\ to # ZeroAddress
    /\ from # ZeroAddress
    /\ balances[from] >= amount

Transfer(from, to, amount) ==
    [h \in Holders |->
        balances[h] - (IF h = from THEN amount ELSE 0)
                    + (IF h = to THEN amount ELSE 0)]

\* ------------------------------------------------------------ ledger
EmptyDeposit ==
    [depositor |-> ZeroAddress, amount |-> 0, repoId |-> "", prNumber |-> 0,
     treasury |-> ZeroAddress, timestamp |-> 0, status |-> "Active"]

Init ==
    /\ deposits = [i \in Ids |-> EmptyDeposit]
    /\ nextDepositId = 0
    /\ usedSignatures = {}
    /\ balances = [h \in Holders |->
                     IF h = "alice" THEN 2 * Stake
                     ELSE IF h = "bob" THEN Stake ELSE 0]
    /\ now = StartTime
    /\ warps = 0
    /\ payouts = [i \in Ids |-> <<>>]
    /\ last = [op |-> "init", caller |-> ZeroAddress, depositId |-> NoId,
               result |-> "ok"]
    /\ pool = {}
    /\ raceLog = <<>>
    /\ mirror = <<>>
    /\ prs = [p \in PrIds |-> [state |-> "pending_deposit", depositId |-> 0]]
    /\ mlast = NoRequest
    /\ entered = FALSE
    /\ inflight = NoCall
    /\ inner = NoInner
    /\ handlers = EmptyBag

\* usedSignatures[messageHash] = true
MarkUsedDropped(messageHash) == usedSignatures

MarkUsed(messageHash) == usedSignatures \cup {messageHash}

DepositErrorNoAmountCheck(caller, treasury, amount) ==
    IF treasury = ZeroAddress THEN "InvalidAddress"
    ELSE IF ~TokenTransferOk(caller, Escrow, amount) THEN "TransferFailed"
    ELSE "ok"

DepositError(caller, treasury, amount) ==
    IF amount = 0 THEN "InvalidAmount"
    ELSE IF treasury = ZeroAddress THEN "InvalidAddress"
    ELSE IF ~TokenTransferOk(caller, Escrow, amount) THEN "TransferFailed"
    ELSE "ok"

DepositKeepsWritesOnRevert(caller, repoId, prNumber, treasury, amount) ==
    LET err == DepositError(caller, treasury, amount)
        depositId == nextDepositId
    IN  /\ nextDepositId < MaxDeposits
        /\ IF err \in {"ok", "TransferFailed"}
           THEN /\ nextDepositId' = nextDepositId + 1
                /\ deposits' = [deposits EXCEPT ![depositId] =
                       [depositor |-> caller, amount |-> amount,
                        repoId |-> repoId, prNumber |-> prNumber,
                        treasury |-> treasury, timestamp |-> now,
                        status |-> "Active"]]
                /\ balances' = IF err = "ok"
                               THEN Transfer(caller, Escrow, amount)
                               ELSE balances
                /\ UNCHANGED <<usedSignatures, payouts>>
           ELSE UNCHANGED ledgerVars
        /\ last' = [op |-> "deposit", caller |-> caller,
                    depositId |-> IF err = "ok" THEN depositId ELSE NoId,
                    result |-> err]
        /\ UNCHANGED <<now, warps>>

DepositWithoutIncrement(caller, repoId, prNumber, treasury, amount) ==
    LET err == DepositError(caller, treasury, amount)
        depositId == nextDepositId
    IN  /\ nextDepositId < MaxDeposits
        /\ IF err = "ok"
           THEN /\ nextDepositId' = nextDepositId
                /\ deposits' = [deposits EXCEPT ![depositId] =
                       [depositor |-> caller, amount |-> amount,
                        repoId |-> repoId, prNumber |-> prNumber,
                        treasury |-> treasury, timestamp |-> now,
                        status |-> "Active"]]
                /\ balances' = Transfer(caller, Escrow, amount)
                /\ UNCHANGED <<usedSignatures, payouts>>
           ELSE UNCHANGED ledgerVars
        /\ last' = [op |-> "deposit", caller |-> caller,
                    depositId |-> IF err = "ok" THEN depositId ELSE NoId,
                    result |-> err]
        /\ UNCHANGED <<now, warps>>

Deposit(caller, repoId, prNumber, treasury, amount) ==
    LET err == DepositError(caller, treasury, amount)
        depositId == nextDepositId
    IN  /\ nextDepositId < MaxDeposits
        /\ IF err = "ok"
           THEN /\ nextDepositId' = nextDepositId + 1
                /\ deposits' = [deposits EXCEPT ![depositId] =
                       [depositor |-> caller, amount |-> amount,
                        repoId |-> repoId, prNumber |-> prNumber,
                        treasury |-> treasury, timestamp |-> now,
                        status |-> "Active"]]
                /\ balances' = Transfer(caller, Escrow, amount)
                /\ UNCHANGED <<usedSignatures, payouts>>
           ELSE UNCHANGED ledgerVars
        /\ last' = [op |-> "deposit", caller |-> caller,
                    depositId |-> IF err = "ok" THEN depositId ELSE NoId,
                    result |-> err]
        /\ UNCHANGED <<now, warps>>

RefundErrorNoStatusCheck(depositId, deadline, signature) ==
    LET dep == deposits[depositId]
        messageHash == Digest("Refund", depositId, deadline)
    IN  IF now > deadline THEN "SignatureExpired"
        ELSE IF messageHash \in usedSignatures THEN "SignatureAlreadyUsed"
        ELSE IF Recover(messageHash, signature) # signer THEN "InvalidSignature"
        ELSE IF ~TokenTransferOk(Escrow, dep.depositor, dep.amount)
             THEN "TransferFailed"
        ELSE "ok"

RefundErrorExpiresAtDeadline(depositId, deadline, signature) ==
    LET dep == deposits[depositId]
        messageHash == Digest("Refund", depositId, deadline)
    IN  IF now >= deadline THEN "SignatureExpired"
        ELSE IF dep.status # "Active" THEN "DepositNotActive"
        ELSE IF messageHash \in usedSignatures THEN "SignatureAlreadyUsed"
        ELSE IF Recover(messageHash, signature) # signer THEN "InvalidSignature"
        ELSE IF ~TokenTransferOk(Escrow, dep.depositor, dep.amount)
             THEN "TransferFailed"
        ELSE "ok"

RefundErrorNoDeadlineCheck(depositId, deadline, signature) ==
    LET dep == deposits[depositId]
        messageHash == Digest("Refund", depositId, deadline)
    IN  IF dep.status # "Active" THEN "DepositNotActive"
        ELSE IF messageHash \in usedSignatures THEN "SignatureAlreadyUsed"
        ELSE IF Recover(messageHash, signature) # signer THEN "InvalidSignature"
        ELSE IF ~TokenTransferOk(Escrow, dep.depositor, dep.amount)
             THEN "TransferFailed"
        ELSE "ok"

RefundError(depositId, deadline, signature) ==
    LET dep == deposits[depositId]
        messageHash == Digest("Refund", depositId, deadline)
    IN  IF now > deadline THEN "SignatureExpired"
        ELSE IF dep.status # "Active" THEN "DepositNotActive"
        ELSE IF messageHash \in usedSignatures THEN "SignatureAlreadyUsed"
        ELSE IF Recover(messageHash, signature) # signer THEN "InvalidSignature"
        ELSE IF ~TokenTransferOk(Escrow, dep.depositor, dep.amount)
             THEN "TransferFailed"
        ELSE "ok"

RefundZeroesAmount(depositId, deadline, signature) ==
    LET err == RefundError(depositId, deadline, signature)
        dep == deposits[depositId]
    IN  /\ IF err = "ok"
           THEN /\ usedSignatures' =
                       MarkUsed(Digest("Refund", depositId, deadline))
                /\ deposits' = [deposits EXCEPT ![depositId].status = "Refunded",
                                                ![depositId].amount = 0]
                /\ balances' = Transfer(Escrow, dep.depositor, dep.amount)
                /\ payouts' = [payouts EXCEPT ![depositId] =
                       Append(@, [to |-> dep.depositor, amount |-> dep.amount,
                                  digest |-> Digest("Refund", depositId, deadline),
                                  auth |-> signature])]
                /\ UNCHANGED nextDepositId
           ELSE UNCHANGED ledgerVars
        /\ last' = [op |-> "refund", caller |-> ZeroAddress,
                    depositId |-> depositId, result |-> err]
        /\ UNCHANGED <<now, warps>>

Refund(depositId, deadline, signature) ==
    LET err == RefundError(depositId, deadline, signature)
        dep == deposits[depositId]
    IN  /\ IF err = "ok"
           THEN /\ usedSignatures' =
                       MarkUsed(Digest("Refund", depositId, deadline))
                /\ deposits' = [deposits EXCEPT ![depositId].status = "Refunded"]
                /\ balances' = Transfer(Escrow, dep.depositor, dep.amount)
                /\ payouts' = [payouts EXCEPT ![depositId] =
                       Append(@, [to |-> dep.depositor, amount |-> dep.amount,
                                  digest |-> Digest("Refund", depositId, deadline),
                                  auth |-> signature])]
                /\ UNCHANGED nextDepositId
           ELSE UNCHANGED ledgerVars
        /\ last' = [op |-> "refund", caller |-> ZeroAddress,
                    depositId |-> depositId, result |-> err]
        /\ UNCHANGED <<now, warps>>

SlashErrorUsedFirst(depositId, deadline, signature) ==
    LET dep == deposits[depositId]
        messageHash == Digest("Slash", depositId, deadline)
    IN  IF now > deadline THEN "SignatureExpired"
        ELSE IF messageHash \in usedSignatures THEN "SignatureAlreadyUsed"
        ELSE IF dep.status # "Active" THEN "DepositNotActive"
        ELSE IF Recover(messageHash, signature) # signer THEN "InvalidSignature"
        ELSE IF ~TokenTransferOk(Escrow, dep.treasury, dep.amount)
             THEN "TransferFailed"
        ELSE "ok"

\* slash as it would be if the timeout closed signed settlement
SlashErrorClosedAtTimeout(depositId, deadline, signature) ==
    LET dep == deposits[depositId]
        messageHash == Digest("Slash", depositId, deadline)
    IN  IF now > deadline THEN "SignatureExpired"
        ELSE IF dep.status # "Active" THEN "DepositNotActive"
        ELSE IF now >= dep.timestamp + TIMEOUT_DURATION THEN "DepositNotActive"
        ELSE IF messageHash \in usedSignatures THEN "SignatureAlreadyUsed"
        ELSE IF Recover(messageHash, signature) # signer THEN "InvalidSignature"
        ELSE IF ~TokenTransferOk(Escrow, dep.treasury, dep.amount)
             THEN "TransferFailed"
        ELSE "ok"

SlashError(depositId, deadline, signature) ==
    LET dep == deposits[depositId]
        messageHash == Digest("Slash", depositId, deadline)
    IN  IF now > deadline THEN "SignatureExpired"
        ELSE IF dep.status # "Active" THEN "DepositNotActive"
        ELSE IF messageHash \in usedSignatures THEN "SignatureAlreadyUsed"
        ELSE IF Recover(messageHash, signature) # signer THEN "InvalidSignature"
        ELSE IF ~TokenTransferOk(Escrow, dep.treasury, dep.amount)
             THEN "TransferFailed"
        ELSE "ok"

Slash(depositId, deadline, signature) ==
    LET err == SlashError(depositId, deadline, signature)
        dep == deposits[depositId]
    IN  /\ IF err = "ok"
           THEN /\ usedSignatures' =
                       MarkUsed(Digest("Slash", depositId, deadline))
                /\ deposits' = [deposits EXCEPT ![depositId].status = "Slashed"]
                /\ balances' = Transfer(Escrow, dep.treasury, dep.amount)
                /\ payouts' = [payouts EXCEPT ![depositId] =
                       Append(@, [to |-> dep.treasury, amount |-> dep.amount,
                                  digest |-> Digest("Slash", depositId, deadline),
                                  auth |-> signature])]
                /\ UNCHANGED nextDepositId
           ELSE UNCHANGED ledgerVars
        /\ last' = [op |-> "slash", caller |-> ZeroAddress,
                    depositId |-> depositId, result |-> err]
        /\ UNCHANGED <<now, warps>>

ClaimTimeoutErrorNoStatusCheck(depositId) ==
    LET dep == deposits[depositId]
    IN  IF now < dep.timestamp + TIMEOUT_DURATION THEN "TimeoutNotReached"
        ELSE IF ~TokenTransferOk(Escrow, dep.depositor, dep.amount)
             THEN "TransferFailed"
        ELSE "ok"

ClaimTimeoutErrorStrictlyAfter(depositId) ==
    LET dep == deposits[depositId]
    IN  IF dep.status # "Active" THEN "DepositNotActive"
        ELSE IF now <= dep.timestamp + TIMEOUT_DURATION THEN "TimeoutNotReached"
        ELSE IF ~TokenTransferOk(Escrow, dep.depositor, dep.amount)
             THEN "TransferFailed"
        ELSE "ok"

ClaimTimeoutError(depositId) ==
    LET dep == deposits[depositId]
    IN  IF dep.status # "Active" THEN "DepositNotActive"
        ELSE IF now < dep.timestamp + TIMEOUT_DURATION THEN "TimeoutNotReached"
        ELSE IF ~TokenTransferOk(Escrow, dep.depositor, dep.amount)
             THEN "TransferFailed"
        ELSE "ok"

ClaimTimeoutPaysCaller(caller, depositId) ==
    LET err == ClaimTimeoutError(depositId)
        dep == deposits[depositId]
    IN  /\ IF err = "ok"
           THEN /\ deposits' = [deposits EXCEPT ![depositId].status = "TimedOut"]
                /\ balances' = Transfer(Escrow, caller, dep.amount)
                /\ payouts' = [payouts EXCEPT ![depositId] =
                       Append(@, [to |-> caller, amount |-> dep.amount,
                                  digest |-> <<>>, auth |-> NoSig])]
                /\ UNCHANGED <<nextDepositId, usedSignatures>>
           ELSE UNCHANGED ledgerVars
        /\ last' = [op |-> "claimTimeout", caller |-> caller,
                    depositId |-> depositId, result |-> err]
        /\ UNCHANGED <<now, warps>>

\* claimTimeout as it would be if it also consumed a digest
ClaimTimeoutMarksDigest(caller, depositId) ==
    LET err == ClaimTimeoutError(depositId)
        dep == deposits[depositId]
    IN  /\ IF err = "ok"
           THEN /\ deposits' = [deposits EXCEPT ![depositId].status = "TimedOut"]
                /\ balances' = Transfer(Escrow, dep.depositor, dep.amount)
                /\ payouts' = [payouts EXCEPT ![depositId] =
                       Append(@, [to |-> dep.depositor, amount |-> dep.amount,
                                  digest |-> <<>>, auth |-> NoSig])]
                /\ usedSignatures' =
                       MarkUsed(Digest("Refund", depositId, now + SigLifetime))
                /\ UNCHANGED nextDepositId
           ELSE UNCHANGED ledgerVars
        /\ last' = [op |-> "claimTimeout", caller |-> caller,
                    depositId |-> depositId, result |-> err]
        /\ UNCHANGED <<now, warps>>

ClaimTimeout(caller, depositId) ==
    LET err == ClaimTimeoutError(depositId)
        dep == deposits[depositId]
    IN  /\ IF err = "ok"
           THEN /\ deposits' = [deposits EXCEPT ![depositId].status = "TimedOut"]
                /\ balances' = Transfer(Escrow, dep.depositor, dep.amount)
                /\ payouts' = [payouts EXCEPT ![depositId] =
                       Append(@, [to |-> dep.depositor, amount |-> dep.amount,
                                  digest |-> <<>>, auth |-> NoSig])]
                /\ UNCHANGED <<nextDepositId, usedSignatures>>
           ELSE UNCHANGED ledgerVars
        /\ last' = [op |-> "claimTimeout", caller |-> caller,
                    depositId |-> depositId, result |-> err]
        /\ UNCHANGED <<now, warps>>

\* block.timestamp advances between transactions
Warp(delta) ==
    /\ warps < MaxWarps
    /\ now' = now + delta
    /\ warps' = warps + 1
    /\ last' = [op |-> "warp", caller |-> ZeroAddress, depositId |-> NoId,
                result |-> "ok"]
    /\ UNCHANGED ledgerVars

\* ------------------------------------------------------------ call inputs
DeadlineInputs ==
    {StartTime - 1, StartTime + SigLifetime,
     StartTime + TIMEOUT_DURATION + SigLifetime}

SignatureInputs(type, depositId, deadline) ==
    {Sign(SignerKey, Digest(t, i, deadline)) : t \in Types, i \in Ids}
    \cup {Sign(SignerKey, Digest(type, depositId, d)) : d \in DeadlineInputs}
    \cup {Sign(BadKey, Digest(type, depositId, deadline)),
          Sign(SignerKey, EthSignedMessageHash(Digest(type, depositId, deadline)))}

DoDeposit ==
    \E caller \in Users, repoId \in RepoIds, prNumber \in PrNumbers,
       treasury \in Treasuries, amount \in Amounts :
        Deposit(caller, repoId, prNumber, treasury, amount)

DoDepositValid ==
    \E caller \in Users, repoId \in RepoIds, prNumber \in PrNumbers :
        Deposit(caller, repoId, prNumber, TreasuryAddr, Stake)

DoRefund ==
    \E depositId \in Ids, deadline \in DeadlineInputs :
        \E signature \in SignatureInputs("Refund", depositId, deadline) :
            Refund(depositId, deadline, signature)

DoSlash ==
    \E depositId \in Ids, deadline \in DeadlineInputs :
        \E signature \in SignatureInputs("Slash", depositId, deadline) :
            Slash(depositId, deadline, signature)

DoClaimTimeout ==
    \E caller \in Users, depositId \in Ids : ClaimTimeout(caller, depositId)

DoWarp == \E delta \in Warps : Warp(delta)

Next ==
    \/ DoDeposit /\ UNCHANGED <<raceVars, reentryVars, handlerVars, offChainVars>>
    \/ DoRefund /\ UNCHANGED <<raceVars, reentryVars, handlerVars, offChainVars>>
    \/ DoSlash /\ UNCHANGED <<raceVars, reentryVars, handlerVars, offChainVars>>
    \/ DoClaimTimeout /\ UNCHANGED <<raceVars, reentryVars, handlerVars, offChainVars>>
    \/ DoWarp /\ UNCHANGED <<raceVars, reentryVars, handlerVars, offChainVars>>

Spec == Init /\ [][Next]_vars

\* ------------------------------------------------------------ racing calls
\* Transactions submitted together and ordered by the execution environment
\* within one block: each is executed atomically, in any order.
RaceCalls(depositId, deadline) ==
    {[op |-> "refund", depositId |-> depositId, deadline |-> deadline,
      signature |-> Sign(SignerKey, Digest("Refund", depositId, deadline))],
     [op |-> "slash", depositId |-> depositId, deadline |-> deadline,
      signature |-> Sign(SignerKey, Digest("Slash", depositId, deadline))],
     [op |-> "claimTimeout", depositId |-> depositId, deadline |-> 0,
      signature |-> NoSig]}

SubmitRace(depositId, deadline) ==
    /\ pool = {}
    /\ depositId < nextDepositId
    /\ RefundError(depositId, deadline,
                   Sign(SignerKey, Digest("Refund", depositId, deadline))) = "ok"
    /\ SlashError(depositId, deadline,
                  Sign(SignerKey, Digest("Slash", depositId, deadline))) = "ok"
    /\ ClaimTimeoutError(depositId) = "ok"
    /\ pool' = RaceCalls(depositId, deadline)
    /\ raceLog' = <<>>
    /\ UNCHANGED <<chainVars, reentryVars, handlerVars, offChainVars>>

ExecuteRaced(call, caller) ==
    /\ call \in pool
    /\ IF call.op = "refund"
       THEN Refund(call.depositId, call.deadline, call.signature)
       ELSE IF call.op = "slash"
       THEN Slash(call.depositId, call.deadline, call.signature)
       ELSE ClaimTimeout(caller, call.depositId)
    /\ pool' = pool \ {call}
    /\ raceLog' = Append(raceLog, [op |-> call.op, depositId |-> call.depositId,
                                   result |-> last'.result])
    /\ UNCHANGED <<reentryVars, handlerVars, offChainVars>>

DoSubmitRace ==
    \E depositId \in Ids, deadline \in DeadlineInputs :
        SubmitRace(depositId, deadline)

DoExecuteRaced ==
    \E call \in pool, caller \in Users : ExecuteRaced(call, caller)

NextRace ==
    \/ DoDeposit /\ UNCHANGED <<raceVars, reentryVars, handlerVars, offChainVars>>
    \/ pool = {} /\ DoWarp /\ UNCHANGED <<raceVars, reentryVars, handlerVars, offChainVars>>
    \/ DoSubmitRace
    \/ DoExecuteRaced

SpecRace == Init /\ [][NextRace]_vars

\* ------------------------------------------------ signing authority
\* walletClient.signMessage({ message: { raw: digest } }) signs the EIP-191
\* personal-message hash of the digest
SignMessageRaw(key, digest) == Sign(key, EthSignedMessageHash(digest))

CreateRefundSignature(depositId, deadline) ==
    SignMessageRaw(SignerKey, Digest("Refund", depositId, deadline))

CreateSlashSignature(depositId, deadline) ==
    SignMessageRaw(SignerKey, Digest("Slash", depositId, deadline))

\* SIGNER_PRIVATE_KEY as the process finds it
KeyMaterials == {"absent", "malformed"} \cup Keys
NoAccount == "noAccount"
SignerNotConfigured == [key |-> "Signer not configured", msg |-> <<>>]

PrivateKeyToAccountOrDefault(keyMaterial) ==
    IF keyMaterial \in Keys THEN keyMaterial ELSE BadKey

\* account = key given and well formed ? privateKeyToAccount(key) : null
PrivateKeyToAccount(keyMaterial) ==
    IF keyMaterial \in Keys THEN keyMaterial ELSE NoAccount

\* createRefundSignature / createSlashSignature of a service built from
\* `keyMaterial': the signature, or SignerNotConfigured for the thrown error
CreateSignatureWith(keyMaterial, type, depositId, deadline) ==
    LET account == PrivateKeyToAccount(keyMaterial)
    IN  IF account = NoAccount THEN SignerNotConfigured
        ELSE SignMessageRaw(account, Digest(type, depositId, deadline))

\* the route's try block got a signature (rpcOk: DOMAIN_SEPARATOR was read)
SigningOk(keyMaterial, rpcOk) ==
    PrivateKeyToAccount(keyMaterial) # NoAccount /\ rpcOk

\* ------------------------------------------------ orchestrator and mirror
Response(op, http) ==
    [op |-> op, http |-> http, signature |-> NoSig, deadline |-> 0,
     depositId |-> NoId]

SignedResponse(op, signature, deadline, depositId) ==
    [op |-> op, http |-> 200, signature |-> signature, deadline |-> deadline,
     depositId |-> depositId]

HasWriteAccess(user) == user \in Maintainers

\* POST /api/deposits
RecordDeposit(auth, prId, txHash, onchainId, githubOk) ==
    LET existingDeposit == \E k \in 1..Len(mirror) : mirror[k].prId = prId
        depositId == Len(mirror) + 1
        reply(http) == Response("recordDeposit", http)
    IN  /\ IF auth = NoAuth
           THEN mlast' = reply(401) /\ UNCHANGED <<mirror, prs>>
           ELSE IF txHash = "malformed"
           THEN mlast' = reply(400) /\ UNCHANGED <<mirror, prs>>
           ELSE IF existingDeposit
           THEN mlast' = reply(400) /\ UNCHANGED <<mirror, prs>>
           ELSE /\ Len(mirror) < MaxMirror
                /\ mirror' = Append(mirror,
                       [onchainId |-> onchainId, prId |-> prId, userId |-> auth,
                        status |-> "confirmed", txHash |-> txHash,
                        refundTxHash |-> Null, slashTxHash |-> Null,
                        slashReason |-> Null, slashedById |-> Null])
                /\ prs' = [prs EXCEPT ![prId] =
                              [state |-> "open", depositId |-> depositId]]
                /\ mlast' = reply(IF githubOk THEN 200 ELSE 500)
        /\ UNCHANGED <<chainVars, raceVars, reentryVars, handlerVars>>

\* POST /api/deposits/:id/refund: the response
RefundReplyNoOwnerCheck(auth, id, signOk) ==
    LET reply(http) == Response("requestRefund", http)
        deadline == now + SigLifetime
    IN  IF auth = NoAuth THEN reply(401)
        ELSE IF id > Len(mirror) THEN reply(404)
        ELSE IF mirror[id].status # "confirmed" THEN reply(400)
        ELSE IF prs[mirror[id].prId].state \notin {"merged", "closed"}
             THEN reply(400)
        ELSE IF ~signOk THEN reply(500)
        ELSE SignedResponse("requestRefund",
                 CreateRefundSignature(mirror[id].onchainId, deadline),
                 deadline, mirror[id].onchainId)

RefundReply(auth, id, signOk) ==
    LET reply(http) == Response("requestRefund", http)
        deadline == now + SigLifetime
    IN  IF auth = NoAuth THEN reply(401)
        ELSE IF id > Len(mirror) THEN reply(404)
        ELSE IF mirror[id].userId # auth THEN reply(403)
        ELSE IF mirror[id].status # "confirmed" THEN reply(400)
        ELSE IF prs[mirror[id].prId].state \notin {"merged", "closed"}
             THEN reply(400)
        ELSE IF ~signOk THEN reply(500)
        ELSE SignedResponse("requestRefund",
                 CreateRefundSignature(mirror[id].onchainId, deadline),
                 deadline, mirror[id].onchainId)

\* POST /api/deposits/:id/refund
RequestRefund(auth, id, signOk) ==
    /\ mlast' = RefundReply(auth, id, signOk)
    /\ UNCHANGED <<mirror, prs, chainVars, raceVars, reentryVars, handlerVars>>

\* POST /api/deposits/:id/slash: the checks made before the signing
\* authority is called (the status to answer with, 200 when all pass)
SlashCheckNoAccessCheck(auth, id, reasonLength) ==
    IF auth = NoAuth THEN 401
    ELSE IF reasonLength < 10 \/ reasonLength > 500 THEN 400
    ELSE IF id > Len(mirror) THEN 404
    ELSE IF mirror[id].status # "confirmed" THEN 400
    ELSE 200

SlashCheck(auth, id, reasonLength) ==
    IF auth = NoAuth THEN 401
    ELSE IF reasonLength < 10 \/ reasonLength > 500 THEN 400
    ELSE IF id > Len(mirror) THEN 404
    ELSE IF mirror[id].status # "confirmed" THEN 400
    ELSE IF ~HasWriteAccess(auth) THEN 403
    ELSE 200

\* POST /api/deposits/:id/slash: the response
SlashReply(auth, id, reasonLength, signOk, githubOk) ==
    LET reply(http) == Response("requestSlash", http)
        deadline == now + SigLifetime
        checked == SlashCheck(auth, id, reasonLength)
    IN  IF checked # 200 THEN reply(checked)
        ELSE IF ~signOk THEN reply(500)
        ELSE IF ~githubOk THEN reply(500)
        ELSE SignedResponse("requestSlash",
                 CreateSlashSignature(mirror[id].onchainId, deadline),
                 deadline, mirror[id].onchainId)

\* POST /api/deposits/:id/slash
RequestSlash(auth, id, reasonLength, signOk, githubOk) ==
    /\ mlast' = SlashReply(auth, id, reasonLength, signOk, githubOk)
    /\ mirror' =
          IF SlashCheck(auth, id, reasonLength) = 200 /\ signOk
          THEN [mirror EXCEPT ![id].status = "slashed",
                              ![id].slashReason = reasonLength,
                              ![id].slashedById = auth]
          ELSE mirror
    /\ UNCHANGED <<prs, chainVars, raceVars, reentryVars, handlerVars>>

\* POST /api/deposits/:id/confirm-refund
ConfirmRefund(auth, id, txHash) ==
    LET reply(http) == Response("confirmRefund", http)
    IN  /\ IF auth = NoAuth
           THEN mlast' = reply(401) /\ UNCHANGED mirror
           ELSE IF id > Len(mirror)
           THEN mlast' = reply(404) /\ UNCHANGED mirror
           ELSE IF mirror[id].userId # auth
           THEN mlast' = reply(403) /\ UNCHANGED mirror
           ELSE IF mirror[id].status # "confirmed"
           THEN mlast' = reply(400) /\ UNCHANGED mirror
           ELSE IF txHash = "malformed"
           THEN mlast' = reply(400) /\ UNCHANGED mirror
           ELSE IF mirror[id].refundTxHash # Null
           THEN mlast' = reply(400) /\ UNCHANGED mirror
           ELSE /\ mirror' = [mirror EXCEPT ![id].status = "refunded",
                                            ![id].refundTxHash = txHash]
                /\ mlast' = reply(200)
        /\ UNCHANGED <<prs, chainVars, raceVars, reentryVars, handlerVars>>

\* whoever received a signed response submits it to the ledger
RelayToLedger ==
    /\ mlast.http = 200
    /\ mlast.signature # NoSig
    /\ IF mlast.op = "requestRefund"
       THEN Refund(mlast.depositId, mlast.deadline, mlast.signature)
       ELSE Slash(mlast.depositId, mlast.deadline, mlast.signature)
    /\ UNCHANGED <<raceVars, reentryVars, handlerVars, offChainVars>>

DoRecordDeposit ==
    \E auth \in Users \cup {NoAuth}, prId \in PrIds, txHash \in TxHashInputs,
       onchainId \in Ids, githubOk \in BOOLEAN :
        RecordDeposit(auth, prId, txHash, onchainId, githubOk)

DoRequestRefund ==
    \E auth \in Users \cup {NoAuth}, id \in 1..MaxMirror, signOk \in BOOLEAN :
        RequestRefund(auth, id, signOk)

DoRequestSlash ==
    \E auth \in Users \cup {NoAuth}, id \in 1..MaxMirror,
       reasonLength \in ReasonLengths, signOk \in BOOLEAN, githubOk \in BOOLEAN :
        RequestSlash(auth, id, reasonLength, signOk, githubOk)

DoConfirmRefund ==
    \E auth \in Users \cup {NoAuth}, id \in 1..MaxMirror,
       txHash \in TxHashInputs :
        ConfirmRefund(auth, id, txHash)

NextMirror ==
    \/ DoDepositValid /\ UNCHANGED <<raceVars, reentryVars, handlerVars, offChainVars>>
    \/ DoRecordDeposit
    \/ DoRequestRefund
    \/ DoRequestSlash
    \/ DoConfirmRefund
    \/ RelayToLedger

SpecMirror == Init /\ [][NextMirror]_vars

\* ------------------------------------------------ the API test harness
\* The rows the API tests insert directly before calling a route.
PrStates == {"open", "closed", "merged", "pending_deposit"}
FixtureStatuses == {"confirmed", "refunded"}

\* createTestPR
CreateTestPR(prId, state) ==
    /\ \A k \in 1..Len(mirror) : mirror[k].prId # prId
    /\ prs' = [prs EXCEPT ![prId].state = state]
    /\ UNCHANGED <<mirror, mlast, chainVars, raceVars, reentryVars, handlerVars>>

\* createTestDeposit
CreateTestDeposit(prId, userId, status, onchainId) ==
    /\ Len(mirror) < MaxFixtures
    /\ mirror' = Append(mirror,
           [onchainId |-> onchainId, prId |-> prId, userId |-> userId,
            status |-> status, txHash |-> "0xtxhash",
            refundTxHash |-> Null, slashTxHash |-> Null,
            slashReason |-> Null, slashedById |-> Null])
    /\ UNCHANGED <<prs, mlast, chainVars, raceVars, reentryVars, handlerVars>>

DoCreateTestPR ==
    \E prId \in PrIds, state \in PrStates : CreateTestPR(prId, state)

DoCreateTestDeposit ==
    \E prId \in PrIds, userId \in Users, status \in FixtureStatuses,
       onchainId \in {i \in Ids : i < nextDepositId} :
        CreateTestDeposit(prId, userId, status, onchainId)

NextRoutes ==
    \/ DoDepositValid /\ UNCHANGED <<raceVars, reentryVars, handlerVars, offChainVars>>
    \/ DoCreateTestPR
    \/ DoCreateTestDeposit
    \/ DoRequestRefund
    \/ DoRequestSlash

SpecRoutes == Init /\ [][NextRoutes]_vars

\* ------------------------------------------------ the timeout exit
\* Time keeps advancing while the 30-day window of some Active deposit has
\* not run out (the guard caps block.timestamp).
Elapse ==
    /\ \E i \in Ids :
          /\ i < nextDepositId
          /\ deposits[i].status = "Active"
          /\ now < deposits[i].timestamp + TIMEOUT_DURATION
    /\ now' = now + TIMEOUT_DURATION
    /\ last' = [op |-> "warp", caller |-> ZeroAddress, depositId |-> NoId,
                result |-> "ok"]
    /\ UNCHANGED <<ledgerVars, warps, raceVars, reentryVars, handlerVars, offChainVars>>

\* refund / slash submitted with a signature made by the signer or by
\* another key
DoSettleSigned ==
    \E depositId \in Ids, deadline \in DeadlineInputs, key \in Keys :
        /\ \/ Refund(depositId, deadline,
                     Sign(key, Digest("Refund", depositId, deadline)))
           \/ Slash(depositId, deadline,
                    Sign(key, Digest("Slash", depositId, deadline)))
        /\ UNCHANGED <<raceVars, reentryVars, handlerVars, offChainVars>>

ClaimTimeoutBy(depositId) ==
    /\ \E caller \in Users : ClaimTimeout(caller, depositId)
    /\ UNCHANGED <<raceVars, reentryVars, handlerVars, offChainVars>>

DoClaimTimeoutBy == \E depositId \in Ids : ClaimTimeoutBy(depositId)

NextEscape ==
    \/ DoDepositValid /\ UNCHANGED <<raceVars, reentryVars, handlerVars, offChainVars>>
    \/ DoSettleSigned
    \/ DoClaimTimeoutBy
    \/ Elapse

SpecEscape ==
    /\ Init
    /\ [][NextEscape]_vars
    /\ WF_vars(Elapse)
    /\ \A i \in Ids : WF_vars(ClaimTimeoutBy(i))

\* ------------------------------------------------ re-entrant calls
\* A ledger function executed step by step: its checks and storage writes
\* up to the external token call, the calls the token (or a contract it
\* notifies) makes back into the ledger during that call, and the end of
\* the token call.
NonReentrantUnguarded == "ok"

\* modifier nonReentrant
NonReentrant == IF entered THEN "ReentrancyGuardReentrantCall" ELSE "ok"

LedgerCalls ==
    {[op |-> "deposit", caller |-> c, depositId |-> NoId, deadline |-> 0,
      signature |-> NoSig] : c \in Users}
    \cup {[op |-> o, caller |-> ZeroAddress, depositId |-> i, deadline |-> d,
           signature |-> Sign(SignerKey,
               Digest(IF o = "refund" THEN "Refund" ELSE "Slash", i, d))] :
             o \in {"refund", "slash"}, i \in Ids, d \in DeadlineInputs}
    \cup {[op |-> "claimTimeout", caller |-> c, depositId |-> i,
           deadline |-> 0, signature |-> NoSig] : c \in Users, i \in Ids}

CallError(call) ==
    IF call.op = "deposit" THEN DepositError(call.caller, TreasuryAddr, Stake)
    ELSE IF call.op = "refund"
    THEN RefundError(call.depositId, call.deadline, call.signature)
    ELSE IF call.op = "slash"
    THEN SlashError(call.depositId, call.deadline, call.signature)
    ELSE ClaimTimeoutError(call.depositId)

\* the whole function, external call included, as one transaction
RunCall(call) ==
    IF call.op = "deposit"
    THEN Deposit(call.caller, "owner/repo", 42, TreasuryAddr, Stake)
    ELSE IF call.op = "refund"
    THEN Refund(call.depositId, call.deadline, call.signature)
    ELSE IF call.op = "slash"
    THEN Slash(call.depositId, call.deadline, call.signature)
    ELSE ClaimTimeout(call.caller, call.depositId)

\* the storage writes a function makes before its token call
WritesBeforeTransfer(call) ==
    LET dep == deposits[call.depositId]
        type == IF call.op = "refund" THEN "Refund" ELSE "Slash"
        messageHash == Digest(type, call.depositId, call.deadline)
    IN  IF call.op = "deposit"
        THEN /\ nextDepositId' = nextDepositId + 1
             /\ deposits' = [deposits EXCEPT ![nextDepositId] =
                    [depositor |-> call.caller, amount |-> Stake,
                     repoId |-> "owner/repo", prNumber |-> 42,
                     treasury |-> TreasuryAddr, timestamp |-> now,
                     status |-> "Active"]]
             /\ inflight' = [op |-> "deposit", depositId |-> nextDepositId,
                             from |-> call.caller, to |-> Escrow,
                             amount |-> Stake, digest |-> <<>>, auth |-> NoSig]
             /\ UNCHANGED usedSignatures
        ELSE IF call.op = "claimTimeout"
        THEN /\ deposits' = [deposits EXCEPT
                                ![call.depositId].status = "TimedOut"]
             /\ inflight' = [op |-> "claimTimeout", depositId |-> call.depositId,
                             from |-> Escrow, to |-> dep.depositor,
                             amount |-> dep.amount, digest |-> <<>>,
                             auth |-> NoSig]
             /\ UNCHANGED <<nextDepositId, usedSignatures>>
        ELSE /\ usedSignatures' = MarkUsed(messageHash)
             /\ deposits' = [deposits EXCEPT ![call.depositId].status =
                    IF call.op = "refund" THEN "Refunded" ELSE "Slashed"]
             /\ inflight' = [op |-> call.op, depositId |-> call.depositId,
                             from |-> Escrow,
                             to |-> IF call.op = "refund" THEN dep.depositor
                                    ELSE dep.treasury,
                             amount |-> dep.amount, digest |-> messageHash,
                             auth |-> call.signature]
             /\ UNCHANGED nextDepositId

\* a transaction calls a ledger function: a failing call reverts at once, a
\* passing one runs up to its token call
EnterCall(call) ==
    /\ inflight = NoCall
    /\ NonReentrant = "ok"
    /\ call.op = "deposit" => nextDepositId < MaxDeposits
    /\ IF CallError(call) # "ok"
       THEN RunCall(call) /\ UNCHANGED reentryVars
       ELSE /\ entered' = TRUE
            /\ WritesBeforeTransfer(call)
            /\ inner' = NoInner
            /\ last' = [op |-> call.op, caller |-> call.caller,
                        depositId |-> inflight'.depositId,
                        result |-> "inTransfer"]
            /\ UNCHANGED <<balances, payouts, now, warps>>
    /\ UNCHANGED <<raceVars, handlerVars, offChainVars>>

\* during the token call, control comes back into a ledger function
Reenter(call) ==
    /\ inflight # NoCall
    /\ call.op = "deposit" => nextDepositId < MaxDeposits
    /\ IF NonReentrant # "ok"
       THEN /\ inner' = [op |-> call.op, depositId |-> call.depositId,
                         result |-> NonReentrant]
            /\ UNCHANGED chainVars
       ELSE /\ RunCall(call)
            /\ inner' = [op |-> call.op, depositId |-> call.depositId,
                         result |-> last'.result]
    /\ UNCHANGED <<entered, inflight, raceVars, handlerVars, offChainVars>>

\* the token call returns and the function ends
FinishTransfer ==
    /\ inflight # NoCall
    /\ balances' = Transfer(inflight.from, inflight.to, inflight.amount)
    /\ payouts' =
          IF inflight.op = "deposit" THEN payouts
          ELSE [payouts EXCEPT ![inflight.depositId] =
                   Append(@, [to |-> inflight.to, amount |-> inflight.amount,
                              digest |-> inflight.digest,
                              auth |-> inflight.auth])]
    /\ entered' = FALSE
    /\ inflight' = NoCall
    /\ last' = [last EXCEPT !.result = "ok"]
    /\ UNCHANGED <<deposits, nextDepositId, usedSignatures, now, warps, inner,
                   raceVars, handlerVars, offChainVars>>

DoEnterCall == \E call \in LedgerCalls : EnterCall(call)

DoReenter == \E call \in LedgerCalls : Reenter(call)

ElapseBetweenCalls == inflight = NoCall /\ Elapse

NextReentry ==
    \/ DoEnterCall
    \/ DoReenter
    \/ FinishTransfer
    \/ ElapseBetweenCalls

SpecReentry == Init /\ [][NextReentry]_vars

\* ------------------------------------------------ concurrent API requests
\* Every route is an async function: it reads its rows, awaits (the body,
\* GitHub, the signing key, the database client) and only then writes.  No
\* route opens a transaction, so other requests run between the two halves.
\* A request that passed its checks is suspended in `handlers' with what it
\* read; its write half runs later, on the values it read.
TxHashes == {"0xabc", "0xdef", "malformed"}
Contributors == Users \ Maintainers

Suspended(route, auth, prId, id, txHash, onchainId, reasonLength) ==
    [route |-> route, auth |-> auth, prId |-> prId, id |-> id,
     txHash |-> txHash, onchainId |-> onchainId,
     reasonLength |-> reasonLength]

Suspend(request) ==
    /\ BagCardinality(handlers) < MaxHandlers
    /\ handlers' = handlers (+) SetToBag({request})

Resume(request) ==
    /\ BagIn(request, handlers)
    /\ handlers' = handlers (-) SetToBag({request})

\* POST /api/deposits: the checks
RecordCheck(auth, prId, txHash) ==
    IF auth = NoAuth THEN 401
    ELSE IF txHash = "malformed" THEN 400
    ELSE IF \E k \in 1..Len(mirror) : mirror[k].prId = prId THEN 400
    ELSE 200

\* POST /api/deposits, up to `await db.insert'
RecordDepositSelect(auth, prId, txHash, onchainId) ==
    /\ IF RecordCheck(auth, prId, txHash) # 200
       THEN /\ mlast' = Response("recordDeposit",
                                 RecordCheck(auth, prId, txHash))
            /\ UNCHANGED handlers
       ELSE /\ Suspend(Suspended("recordDeposit", auth, prId, 0, txHash,
                                 onchainId, 0))
            /\ UNCHANGED mlast
    /\ UNCHANGED <<mirror, prs, chainVars, raceVars, reentryVars>>

\* POST /api/deposits, from `await db.insert' on
RecordDepositInsert(request, githubOk) ==
    /\ request.route = "recordDeposit"
    /\ Resume(request)
    /\ Len(mirror) < MaxMirror
    /\ mirror' = Append(mirror,
           [onchainId |-> request.onchainId, prId |-> request.prId,
            userId |-> request.auth, status |-> "confirmed",
            txHash |-> request.txHash,
            refundTxHash |-> Null, slashTxHash |-> Null,
            slashReason |-> Null, slashedById |-> Null])
    /\ prs' = [prs EXCEPT ![request.prId] =
                  [state |-> "open", depositId |-> Len(mirror) + 1]]
    /\ mlast' = Response("recordDeposit", IF githubOk THEN 200 ELSE 500)
    /\ UNCHANGED <<chainVars, raceVars, reentryVars>>

\* POST /api/deposits/:id/confirm-refund: the checks
ConfirmCheck(auth, id, txHash) ==
    IF auth = NoAuth THEN 401
    ELSE IF id > Len(mirror) THEN 404
    ELSE IF mirror[id].userId # auth THEN 403
    ELSE IF mirror[id].status # "confirmed" THEN 400
    ELSE IF txHash = "malformed" THEN 400
    ELSE IF mirror[id].refundTxHash # Null THEN 400
    ELSE 200

\* POST /api/deposits/:id/confirm-refund, up to `await db.update'
ConfirmRefundSelect(auth, id, txHash) ==
    /\ IF ConfirmCheck(auth, id, txHash) # 200
       THEN /\ mlast' = Response("confirmRefund",
                                 ConfirmCheck(auth, id, txHash))
            /\ UNCHANGED handlers
       ELSE /\ Suspend(Suspended("confirmRefund", auth, Null, id, txHash,
                                 0, 0))
            /\ UNCHANGED mlast
    /\ UNCHANGED <<mirror, prs, chainVars, raceVars, reentryVars>>

\* POST /api/deposits/:id/confirm-refund, from `await db.update' on
ConfirmRefundUpdate(request) ==
    /\ request.route = "confirmRefund"
    /\ Resume(request)
    /\ mirror' = [mirror EXCEPT ![request.id].status = "refunded",
                                ![request.id].refundTxHash = request.txHash]
    /\ mlast' = Response("confirmRefund", 200)
    /\ UNCHANGED <<prs, chainVars, raceVars, reentryVars>>

\* POST /api/deposits/:id/slash, up to the awaits that follow the select
RequestSlashSelect(auth, id, reasonLength) ==
    /\ IF SlashCheck(auth, id, reasonLength) # 200
       THEN /\ mlast' = Response("requestSlash",
                                 SlashCheck(auth, id, reasonLength))
            /\ UNCHANGED handlers
       ELSE /\ Suspend(Suspended("requestSlash", auth, Null, id, Null, 0,
                                 reasonLength))
            /\ UNCHANGED mlast
    /\ UNCHANGED <<mirror, prs, chainVars, raceVars, reentryVars>>

\* POST /api/deposits/:id/slash, from createSlashSignature on
RequestSlashUpdate(request, signOk, githubOk) ==
    LET deadline == now + SigLifetime
        onchainId == mirror[request.id].onchainId
    IN  /\ request.route = "requestSlash"
        /\ Resume(request)
        /\ IF ~signOk
           THEN mlast' = Response("requestSlash", 500) /\ UNCHANGED mirror
           ELSE /\ mirror' = [mirror EXCEPT
                                 ![request.id].status = "slashed",
                                 ![request.id].slashReason =
                                     request.reasonLength,
                                 ![request.id].slashedById = request.auth]
                /\ mlast' = IF githubOk
                            THEN SignedResponse("requestSlash",
                                     CreateSlashSignature(onchainId, deadline),
                                     deadline, onchainId)
                            ELSE Response("requestSlash", 500)
        /\ UNCHANGED <<prs, chainVars, raceVars, reentryVars>>

DoRecordDepositSelect ==
    \E auth \in Contributors \cup {NoAuth}, prId \in PrIds,
       txHash \in TxHashInputs :
        RecordDepositSelect(auth, prId, txHash, 0)

DoRecordDepositInsert ==
    \E request \in BagToSet(handlers), githubOk \in BOOLEAN :
        RecordDepositInsert(request, githubOk)

DoConfirmRefundSelect ==
    \E auth \in Users \cup {NoAuth}, id \in 1..MaxMirror, txHash \in TxHashes :
        ConfirmRefundSelect(auth, id, txHash)

DoConfirmRefundUpdate ==
    \E request \in BagToSet(handlers) : ConfirmRefundUpdate(request)

DoRequestSlashSelect ==
    \E auth \in Users \cup {NoAuth}, id \in 1..MaxMirror,
       reasonLength \in ReasonLengths :
        RequestSlashSelect(auth, id, reasonLength)

DoRequestSlashUpdate ==
    \E request \in BagToSet(handlers), signOk \in BOOLEAN,
       githubOk \in BOOLEAN :
        RequestSlashUpdate(request, signOk, githubOk)

NextHandlers ==
    \/ DoRecordDepositSelect
    \/ DoRecordDepositInsert
    \/ DoConfirmRefundSelect
    \/ DoConfirmRefundUpdate
    \/ DoRequestSlashSelect
    \/ DoRequestSlashUpdate
    \/ DoRequestRefund

SpecHandlers == Init /\ [][NextHandlers]_vars

\* ------------------------------------------------ the pull request's state
\* Every handler that writes pull_requests.state, each run to completion.
PullRequestActions ==
    {"opened", "closed", "reopened", "synchronize", "edited"}

\* POST /webhooks/github, event pull_request
HandlePullRequest(action, prId, requiresDeposit) ==
    /\ prs' = IF action \in {"opened", "reopened", "synchronize"}
              THEN [prs EXCEPT ![prId].state =
                       IF requiresDeposit THEN "pending_deposit" ELSE "open"]
              ELSE prs
    /\ mlast' = Response("pull_request", 200)
    /\ UNCHANGED <<mirror, chainVars, raceVars, reentryVars, handlerVars>>

\* POST /api/prs/:id/mark-spam
MarkSpam(auth, prId, githubOk) ==
    LET reply(http) == Response("markSpam", http)
    IN  /\ IF auth = NoAuth
           THEN mlast' = reply(401) /\ UNCHANGED prs
           ELSE IF ~HasWriteAccess(auth)
           THEN mlast' = reply(403) /\ UNCHANGED prs
           ELSE IF prs[prId].depositId # 0
           THEN mlast' = reply(200) /\ UNCHANGED prs
           ELSE IF ~githubOk
           THEN mlast' = reply(500) /\ UNCHANGED prs
           ELSE /\ prs' = [prs EXCEPT ![prId].state = "closed"]
                /\ mlast' = reply(200)
        /\ UNCHANGED <<mirror, chainVars, raceVars, reentryVars, handlerVars>>

\* POST /api/prs/:id/approve
Approve(auth, prId, githubOk) ==
    LET reply(http) == Response("approve", http)
    IN  /\ IF auth = NoAuth
           THEN mlast' = reply(401) /\ UNCHANGED prs
           ELSE IF ~HasWriteAccess(auth)
           THEN mlast' = reply(403) /\ UNCHANGED prs
           ELSE IF ~githubOk
           THEN mlast' = reply(500) /\ UNCHANGED prs
           ELSE /\ prs' = [prs EXCEPT ![prId].state = "open"]
                /\ mlast' = reply(200)
        /\ UNCHANGED <<mirror, chainVars, raceVars, reentryVars, handlerVars>>

\* GitHub delivers the event of the pull request being closed or merged
PullRequestClosed(prId) ==
    \E requiresDeposit \in BOOLEAN :
        HandlePullRequest("closed", prId, requiresDeposit)

\* the owner of the deposit recorded for the pull request asks for the refund
OwnerRequestsRefund(prId) ==
    \E id \in 1..Len(mirror) :
        /\ mirror[id].prId = prId
        /\ RequestRefund(mirror[id].userId, id, TRUE)

DoHandlePullRequest ==
    \E action \in PullRequestActions, prId \in PrIds,
       requiresDeposit \in BOOLEAN :
        HandlePullRequest(action, prId, requiresDeposit)

DoMarkSpam ==
    \E auth \in Users \cup {NoAuth}, prId \in PrIds, githubOk \in BOOLEAN :
        MarkSpam(auth, prId, githubOk)

DoApprove ==
    \E auth \in Users \cup {NoAuth}, prId \in PrIds, githubOk \in BOOLEAN :
        Approve(auth, prId, githubOk)

NextLifecycle ==
    \/ DoHandlePullRequest
    \/ DoMarkSpam
    \/ DoApprove
    \/ DoRecordDeposit
    \/ DoRequestRefund
    \/ DoRequestSlash
    \/ DoConfirmRefund

SpecLifecycle ==
    /\ Init
    /\ [][NextLifecycle]_vars
    /\ \A prId \in PrIds : /\ WF_vars(PullRequestClosed(prId))
                           /\ WF_vars(OwnerRequestsRefund(prId))

\* ------------------------------------------------ the deposit page
\* The web client: once its deposit transaction has succeeded the page posts
\* the PR, the transaction hash and the on-chain id to POST /api/deposits.
\* It does not read the DepositCreated event; the id it sends is '0'.
DepositPageOnchainId == 0

\* the hash of the transaction that created on-chain deposit `depositId'
DepositHash(depositId) == IF depositId = 0 THEN "0xabc" ELSE "0xdef"

\* useEffect on isDepositSuccess: recordDeposit(prId, depositHash, '0')
PageRecordsDeposit ==
    /\ last.op = "deposit"
    /\ last.result = "ok"
    /\ \A k \in 1..Len(mirror) : mirror[k].txHash # DepositHash(last.depositId)
    /\ \E prId \in PrIds, githubOk \in BOOLEAN :
          RecordDeposit(last.caller, prId, DepositHash(last.depositId),
                        DepositPageOnchainId, githubOk)

NextPage ==
    \/ DoDepositValid /\ UNCHANGED <<raceVars, reentryVars, handlerVars, offChainVars>>
    \/ PageRecordsDeposit
    \/ DoRequestRefund
    \/ DoRequestSlash
    \/ RelayToLedger

SpecPage == Init /\ [][NextPage]_vars

\* ------------------------------------------------ view functions
\* canClaimTimeout
CanClaimTimeout(depositId) ==
    LET dep == deposits[depositId]
    IN  /\ dep.status = "Active"
        /\ now >= dep.timestamp + TIMEOUT_DURATION

TimeUntilTimeoutUnclamped(depositId) ==
    deposits[depositId].timestamp + TIMEOUT_DURATION - now

\* timeUntilTimeout
TimeUntilTimeout(depositId) ==
    LET dep == deposits[depositId]
        timeoutAt == dep.timestamp + TIMEOUT_DURATION
    IN  IF now >= timeoutAt THEN 0 ELSE timeoutAt - now

\* ------------------------------------------------ issued signatures in time
\* The routes issue signatures, the clock advances, and whoever holds the
\* last response submits it to the ledger, at once or later.
\* an hour passes while a signed response waits to be submitted
ResponseAges ==
    /\ mlast.http = 200
    /\ mlast.signature # NoSig
    /\ Warp(SigLifetime)
    /\ UNCHANGED <<raceVars, reentryVars, handlerVars, offChainVars>>

NextIssued ==
    \/ DoDepositValid /\ UNCHANGED <<raceVars, reentryVars, handlerVars, offChainVars>>
    \/ DoCreateTestPR
    \/ DoCreateTestDeposit
    \/ DoRequestRefund
    \/ DoRequestSlash
    \/ RelayToLedger
    \/ ResponseAges

SpecIssued == Init /\ [][NextIssued]_vars

TypeOK ==
    /\ nextDepositId \in 0..MaxDeposits
    /\ \A i \in Ids : deposits[i].status \in
           {"Active", "Refunded", "Slashed", "TimedOut"}

\* ------------------------------------------------------------ helpers
RECURSIVE SetSum(_, _)
SetSum(S, f) ==
    IF S = {} THEN 0
    ELSE LET x == CHOOSE y \in S : TRUE IN f[x] + SetSum(S \ {x}, f)

RECURSIVE SeqSum(_, _)
SeqSum(seq, holder) ==
    IF seq = <<>> THEN 0
    ELSE (IF Head(seq).to = holder THEN Head(seq).amount ELSE 0)
         + SeqSum(Tail(seq), holder)

InitialBalance(h) ==
    IF h = "alice" THEN 2 * Stake ELSE IF h = "bob" THEN Stake ELSE 0

Deposited(h) ==
    SetSum({i \in Ids : i < nextDepositId /\ deposits[i].depositor = h},
           [i \in Ids |-> deposits[i].amount])

Received(h) == SetSum(Ids, [i \in Ids |-> SeqSum(payouts[i], h)])

Terminal(i) == deposits[i].status # "Active"

SettleOps == {"refund", "slash", "claimTimeout"}

ValidSig(type, i, d) == Sign(SignerKey, Digest(type, i, d))

ErrorOf(type, i, d, sig) ==
    IF type = "Refund" THEN RefundError(i, d, sig) ELSE SlashError(i, d, sig)

OtherType(type) == IF type = "Refund" THEN "Slash" ELSE "Refund"

\* ------------------------------------------------------------ claims

\* C1: a deposit that has left Active keeps its status for ever, and no
\* deposit id sees more than one terminal transition (one payout record is
\* written per terminal transition).
C1_StatusMonotone ==
    [][\A i \in Ids :
          /\ deposits[i].status # "Active"
                => deposits'[i].status = deposits[i].status
          /\ Len(payouts'[i]) <= 1]_vars

C1_Witness ==
    \E i \in Ids :
        /\ Terminal(i)
        /\ nextDepositId > i + 1
        /\ last.op \in SettleOps
        /\ last.depositId = i
        /\ last.result = "DepositNotActive"

\* C2: nothing is paid out for a deposit while it is Active; once terminal
\* exactly one transfer of exactly its amount was made, to the depositor
\* (Refunded, TimedOut) or to the treasury (Slashed); the holders' token
\* balances are exactly what these transfers and the deposits account for.
C2_PaidExactlyOnce ==
    /\ \A i \in Ids :
          IF deposits[i].status = "Active"
          THEN payouts[i] = <<>>
          ELSE /\ Len(payouts[i]) = 1
               /\ payouts[i][1].amount = deposits[i].amount
               /\ payouts[i][1].to =
                      IF deposits[i].status = "Slashed"
                      THEN deposits[i].treasury
                      ELSE deposits[i].depositor
    /\ \A h \in Users \cup {TreasuryAddr} :
          balances[h] = InitialBalance(h) - Deposited(h) + Received(h)

C2_Witness ==
    \E i, j \in Ids :
        /\ deposits[i].status = "Slashed"
        /\ deposits[j].status \in {"Refunded", "TimedOut"}
        /\ balances[TreasuryAddr] = Stake

\* C3: a deposit leaves Active only through a refund/slash carrying the
\* signer's signature over the digest of that type, that id and a deadline
\* not yet passed whose digest was unused, or through claimTimeout at or
\* after createdAt + 30 days; nothing else changes a record or moves funds.
C3_GatedBySignature(i, type, status) ==
    /\ deposits'[i].status = status
    /\ last'.op = (IF type = "Refund" THEN "refund" ELSE "slash")
    /\ last'.depositId = i
    /\ last'.result = "ok"
    /\ \E d \in DeadlineInputs :
          /\ now <= d
          /\ Digest(type, i, d) \notin usedSignatures
          /\ Digest(type, i, d) \in usedSignatures'
          /\ payouts'[i][1].auth.key = SignerKey
          /\ payouts'[i][1].auth.msg = Digest(type, i, d)

C3_GatedByTimeout(i) ==
    /\ deposits'[i].status = "TimedOut"
    /\ last'.op = "claimTimeout"
    /\ last'.depositId = i
    /\ now >= deposits[i].timestamp + TIMEOUT_DURATION

C3_Gated(i) ==
    /\ i < nextDepositId
    /\ deposits[i].status = "Active"
    /\ deposits' = [deposits EXCEPT ![i].status = deposits'[i].status]
    /\ \/ C3_GatedBySignature(i, "Refund", "Refunded")
       \/ C3_GatedBySignature(i, "Slash", "Slashed")
       \/ C3_GatedByTimeout(i)

C3_Created(i) ==
    /\ i = nextDepositId
    /\ last'.op = "deposit"
    /\ last'.result = "ok"
    /\ deposits'[i].status = "Active"

C3_EveryTransitionGated ==
    [][/\ \A i \in Ids :
             (deposits'[i] # deposits[i]) => (C3_Gated(i) \/ C3_Created(i))
       /\ \A i \in Ids : (payouts'[i] # payouts[i]) => C3_Gated(i)
       /\ (balances' # balances) =>
             \E i \in Ids : C3_Gated(i) \/ C3_Created(i)]_vars

C3_Witness ==
    /\ last.op = "claimTimeout"
    /\ last.result = "ok"
    /\ \E j \in Ids : deposits[j].status \in {"Refunded", "Slashed"}

\* C4: a mirror row is `slashed' (resp. `refunded') only once a transaction
\* reference confirming the on-chain slash (resp. refund) was supplied, and a
\* row is never terminal while the deposit it names is still Active on chain.
C4_TerminalOnlyAfterConfirmation ==
    \A k \in 1..Len(mirror) :
        /\ mirror[k].status = "slashed" =>
              /\ mirror[k].slashTxHash # Null
              /\ deposits[mirror[k].onchainId].status # "Active"
        /\ mirror[k].status = "refunded" =>
              /\ mirror[k].refundTxHash # Null
              /\ deposits[mirror[k].onchainId].status # "Active"

\* C5: the signature the orchestrator creates for (depositId, deadline) is
\* accepted by refund (resp. slash) whenever the deposit is Active and the
\* deadline has not passed.
C5_OrchestratorSignatureAccepted ==
    \A i \in Ids, d \in DeadlineInputs :
        (i < nextDepositId /\ deposits[i].status = "Active" /\ now <= d)
            => /\ RefundError(i, d, CreateRefundSignature(i, d)) = "ok"
               /\ SlashError(i, d, CreateSlashSignature(i, d)) = "ok"

\* C6: submitting again the (depositId, deadline, signature) of a refund
\* that succeeded, before the deadline, fails with SignatureAlreadyUsed.
C6_ReplayReported ==
    \A i \in Ids, d \in DeadlineInputs :
        (Digest("Refund", i, d) \in usedSignatures /\ now <= d)
            => RefundError(i, d, ValidSig("Refund", i, d)) = "SignatureAlreadyUsed"

C8_SettledDigests ==
    {payouts[i][k].digest : i \in {j \in Ids : payouts[j] # <<>>}, k \in {1}}
        \ {<<>>}

C8_SignedSettlements ==
    {i \in Ids : payouts[i] # <<>> /\ payouts[i][1].digest # <<>>}

C8_Exact ==
    /\ usedSignatures = C8_SettledDigests
    /\ Cardinality(C8_SignedSettlements) = Cardinality(usedSignatures)
    /\ \A i \in Ids : Len(payouts[i]) <= 1

C8_DigestUsedOnce ==
    /\ []C8_Exact
    /\ [][usedSignatures \subseteq usedSignatures']_vars

C8_Witness ==
    /\ Cardinality(usedSignatures) = 2
    /\ deposits[0].status \in {"Refunded", "Slashed"}
    /\ deposits[1].status \in {"Refunded", "Slashed"}
    /\ deposits[1].timestamp > deposits[0].timestamp
    /\ last.op \in {"refund", "slash"}
    /\ last.depositId = 1
    /\ last.result = "ok"

\* C9: a signature over the digest of one type for deposit A is rejected by
\* the call of the other type on A and by both calls on every other id B
\* with the same deadline; a rejected call changes no ledger state.
C9_Binding ==
    \A a \in Ids, d \in DeadlineInputs, t \in Types :
        /\ ErrorOf(OtherType(t), a, d, ValidSig(t, a, d)) # "ok"
        /\ \A b \in Ids \ {a}, u \in Types :
              ErrorOf(u, b, d, ValidSig(t, a, d)) # "ok"

C9_SignatureBound ==
    /\ []C9_Binding
    /\ [][(last'.result # "ok") => UNCHANGED ledgerVars]_vars

C9_Witness ==
    /\ nextDepositId = 2
    /\ deposits[0].status = "Active"
    /\ deposits[1].status = "Active"
    /\ last.op = "slash"
    /\ last.result = "InvalidSignature"
    /\ \E d \in DeadlineInputs :
          /\ RefundError(0, d, ValidSig("Refund", 0, d)) = "ok"
          /\ SlashError(last.depositId, d, ValidSig("Refund", 0, d))
                = "InvalidSignature"

\* C10: when a refund, a slash and a claimTimeout that are each valid on
\* their own race for one Active deposit, whatever the order the first one
\* executed succeeds, every later one fails with DepositNotActive, and the
\* deposit's amount leaves the ledger once.
C10_RaceOneWinner ==
    /\ \A k \in 1..Len(raceLog) :
          raceLog[k].result = IF k = 1 THEN "ok" ELSE "DepositNotActive"
    /\ raceLog # <<>> =>
          /\ Len(payouts[raceLog[1].depositId]) = 1
          /\ deposits[raceLog[1].depositId].status =
                (IF raceLog[1].op = "refund" THEN "Refunded"
                 ELSE IF raceLog[1].op = "slash" THEN "Slashed" ELSE "TimedOut")

C10_Witness ==
    /\ Len(raceLog) = 3
    /\ pool = {}
    /\ raceLog[1].op = "slash"
    /\ raceLog[2].op = "claimTimeout"
    /\ raceLog[3].op = "refund"

\* C11: an Active deposit whose 30 days have elapsed can always be claimed,
\* whatever the used-signature set holds and without any signature; with
\* time advancing and claimTimeout weakly fair, every created deposit
\* eventually is terminal with its amount paid out once.
C11_EscapeEnabled ==
    \A i \in Ids :
        (/\ i < nextDepositId
         /\ deposits[i].status = "Active"
         /\ now >= deposits[i].timestamp + TIMEOUT_DURATION)
            => \A caller \in Users :
                   ENABLED (ClaimTimeout(caller, i)
                            /\ deposits'[i].status = "TimedOut")

C11_TimeoutExit ==
    /\ []C11_EscapeEnabled
    /\ \A i \in Ids :
          (i < nextDepositId) ~>
              (/\ Terminal(i)
               /\ Len(payouts[i]) = 1
               /\ payouts[i][1].amount = deposits[i].amount)

C11_Witness ==
    /\ usedSignatures # {}
    /\ deposits[1].status = "TimedOut"
    /\ last.op = "claimTimeout"
    /\ last.result = "ok"
    /\ last.depositId = 1
    /\ payouts[1][1].auth = NoSig

\* C12: once the window of an Active deposit has elapsed, claimTimeout
\* succeeds for every caller; a successful claimTimeout moves exactly the
\* deposit's amount from the ledger to the depositor recorded at creation,
\* and the balance of every other holder (the caller, the treasury) is
\* unchanged.
C12_AnyCallerSucceeds ==
    \A i \in Ids, caller \in Users :
        (/\ i < nextDepositId
         /\ deposits[i].status = "Active"
         /\ now >= deposits[i].timestamp + TIMEOUT_DURATION)
            => ENABLED (ClaimTimeout(caller, i) /\ last'.result = "ok")

C12_PaysDepositor ==
    (last'.op = "claimTimeout" /\ last'.result = "ok") =>
        LET i == last'.depositId
            dep == deposits[i]
        IN  /\ deposits'[i].depositor = dep.depositor
            /\ payouts'[i] = <<[to |-> dep.depositor, amount |-> dep.amount,
                                digest |-> <<>>, auth |-> NoSig]>>
            /\ balances'[dep.depositor] = balances[dep.depositor] + dep.amount
            /\ balances'[Escrow] = balances[Escrow] - dep.amount
            /\ \A h \in Holders \ {dep.depositor, Escrow} :
                  balances'[h] = balances[h]

C12_TimeoutToDepositor ==
    /\ []C12_AnyCallerSucceeds
    /\ [][C12_PaysDepositor]_vars

C12_Witness ==
    /\ last.op = "claimTimeout"
    /\ last.result = "ok"
    /\ last.caller # deposits[last.depositId].depositor
    /\ deposits[last.depositId].status = "TimedOut"
    /\ balances[deposits[last.depositId].depositor]
          = InitialBalance(deposits[last.depositId].depositor)

\* C13: for a created, Active deposit claimTimeout answers TimeoutNotReached
\* exactly while now < createdAt + 30 days and succeeds from the instant
\* createdAt + 30 days on; the failing call leaves the deposit Active, the
\* successful one sets it TimedOut.
C13_Window ==
    \A i \in Ids :
        (i < nextDepositId /\ deposits[i].status = "Active") =>
            ClaimTimeoutError(i) =
                IF now < deposits[i].timestamp + TIMEOUT_DURATION
                THEN "TimeoutNotReached" ELSE "ok"

C13_Effect ==
    (last'.op = "claimTimeout" /\ deposits[last'.depositId].status = "Active"
        /\ last'.depositId < nextDepositId) =>
        /\ last'.result = ClaimTimeoutError(last'.depositId)
        /\ deposits'[last'.depositId].status =
              IF now >= deposits[last'.depositId].timestamp + TIMEOUT_DURATION
              THEN "TimedOut" ELSE "Active"

C13_TimeoutBoundary ==
    /\ []C13_Window
    /\ [][C13_Effect]_vars

C13_Witness ==
    /\ last.op = "claimTimeout"
    /\ last.result = "ok"
    /\ now = deposits[last.depositId].timestamp + TIMEOUT_DURATION
    /\ deposits[last.depositId].status = "TimedOut"
    /\ \E j \in Ids :
          /\ j < nextDepositId
          /\ deposits[j].status = "Active"
          /\ ClaimTimeoutError(j) = "TimeoutNotReached"

\* C14: a deposit, refund, slash or claimTimeout call that ends in any error,
\* a failing token transfer included, leaves every deposit record,
\* nextDepositId, the used-signature set and every token balance as they
\* were before the call.
C14_LedgerCalls == {"deposit", "refund", "slash", "claimTimeout"}

C14_FailureAtomic ==
    [][(last'.op \in C14_LedgerCalls /\ last'.result # "ok") =>
          /\ deposits' = deposits
          /\ nextDepositId' = nextDepositId
          /\ usedSignatures' = usedSignatures
          /\ balances' = balances]_vars

C14_Witness ==
    /\ last.op = "deposit"
    /\ last.result = "TransferFailed"
    /\ nextDepositId = 1
    /\ deposits[0].status = "Active"
    /\ deposits[1] = EmptyDeposit
    /\ balances[last.caller] < Stake

\* C15: whenever a ledger function is inside its token transfer, the
\* deposit's status is already written (and for refund/slash the digest is
\* already used); every call made back into deposit, refund, slash or
\* claimTimeout from inside the transfer is rejected and changes nothing;
\* no deposit ever has a second payout or a second status transition.
C15_WrittenBeforeTransfer ==
    inflight # NoCall =>
        /\ entered
        /\ inflight.depositId < nextDepositId
        /\ deposits[inflight.depositId].status =
              (IF inflight.op = "deposit" THEN "Active"
               ELSE IF inflight.op = "refund" THEN "Refunded"
               ELSE IF inflight.op = "slash" THEN "Slashed" ELSE "TimedOut")
        /\ inflight.op \in {"refund", "slash"} =>
              inflight.digest \in usedSignatures
        /\ inflight.op # "deposit" => payouts[inflight.depositId] = <<>>

C15_ReentryRejected ==
    /\ inner # NoInner => inner.result = "ReentrancyGuardReentrantCall"
    /\ \A i \in Ids : Len(payouts[i]) <= 1

C15_ReentryStep ==
    /\ (inflight # NoCall /\ inflight' # NoCall) => UNCHANGED ledgerVars
    /\ \A i \in Ids :
          deposits[i].status # "Active" =>
              deposits'[i].status = deposits[i].status

C15_ReentrancySafe ==
    /\ [](C15_WrittenBeforeTransfer /\ C15_ReentryRejected)
    /\ [][C15_ReentryStep]_vars

C15_Witness ==
    /\ inflight.op = "refund"
    /\ inner.op = "claimTimeout"
    /\ inner.depositId # inflight.depositId
    /\ inner.depositId < nextDepositId
    /\ deposits[inner.depositId].status = "Active"
    /\ now >= deposits[inner.depositId].timestamp + TIMEOUT_DURATION
    /\ inner.result = "ReentrancyGuardReentrantCall"

\* C16: in every state between transactions the ledger's token balance is
\* the sum of the amounts of the deposits whose status is Active.
C16_Solvent ==
    balances[Escrow] =
        SetSum({i \in Ids : deposits[i].status = "Active"},
               [i \in Ids |-> deposits[i].amount])

C16_Witness ==
    /\ nextDepositId = 2
    /\ deposits[0].status = "Slashed"
    /\ deposits[1].status = "Active"
    /\ balances[Escrow] = Stake
    /\ balances[TreasuryAddr] = Stake

\* C17: a mirror row in status `confirmed' names an on-chain deposit that
\* exists and is Active, and no other row names the same on-chain deposit.
C17_ConfirmedMatchesChain ==
    \A k \in 1..Len(mirror) :
        mirror[k].status = "confirmed" =>
            /\ mirror[k].onchainId < nextDepositId
            /\ deposits[mirror[k].onchainId].status = "Active"
            /\ \A j \in 1..Len(mirror) :
                  j # k => mirror[j].onchainId # mirror[k].onchainId

\* C18: while the signature returned by the previous settlement request is
\* unexpired and unused, the next request does not return another Refund or
\* Slash signature for the same deposit.
C18_Outstanding(response) ==
    /\ response.signature # NoSig
    /\ now <= response.deadline
    /\ Digest(IF response.op = "requestRefund" THEN "Refund" ELSE "Slash",
              response.depositId, response.deadline) \notin usedSignatures

C18_OneOutstanding ==
    [][~(/\ C18_Outstanding(mlast)
         /\ mlast'.signature # NoSig
         /\ mlast' # mlast
         /\ mlast'.depositId = mlast.depositId)]_vars

\* C19: a requestRefund or requestSlash that answers with an error leaves
\* every mirror row as it was.
C19_ErrorLeavesMirror ==
    [][(mlast'.op \in {"requestRefund", "requestSlash"} /\ mlast'.http # 200)
          => mirror' = mirror]_vars

\* C20: requestRefund answers with a Refund signature exactly when the
\* caller owns the row, the row is `confirmed', the PR's stored state is
\* merged or closed and signing succeeds, and with an error and no signature
\* otherwise; it never changes a mirror row, a PR row or the ledger.
C20_RefundGuard ==
    \A auth \in Users \cup {NoAuth}, id \in 1..MaxMirror, signOk \in BOOLEAN :
        LET r == RefundReply(auth, id, signOk)
        IN  IF /\ auth # NoAuth
               /\ id <= Len(mirror)
               /\ mirror[id].userId = auth
               /\ mirror[id].status = "confirmed"
               /\ prs[mirror[id].prId].state \in {"merged", "closed"}
               /\ signOk
            THEN /\ r.http = 200
                 /\ r.depositId = mirror[id].onchainId
                 /\ r.signature = CreateRefundSignature(r.depositId, r.deadline)
            ELSE /\ r.http # 200
                 /\ r.signature = NoSig

C20_RefundStep ==
    (mlast'.op = "requestRefund" /\ mlast' # mlast) =>
        /\ mlast' \in {RefundReply(auth, id, signOk) :
                          auth \in Users \cup {NoAuth}, id \in 1..MaxMirror,
                          signOk \in BOOLEAN}
        /\ UNCHANGED <<mirror, prs, ledgerVars>>

C20_RefundOnlyForOwner ==
    /\ []C20_RefundGuard
    /\ [][C20_RefundStep]_vars

C20_Witness ==
    /\ mlast.op = "requestRefund"
    /\ mlast.http = 200
    /\ mlast.signature # NoSig
    /\ Len(mirror) = 1
    /\ mirror[1].status = "confirmed"
    /\ prs[mirror[1].prId].state = "merged"
    /\ deposits[mirror[1].onchainId].status = "Active"
    /\ balances[Escrow] = Stake

\* C21: requestSlash passes its checks exactly when the caller is
\* authenticated with write access, the reason has 10 to 500 characters and
\* the row is `confirmed'; it returns a Slash signature only then; a request
\* that fails a check is answered before signing and changes no mirror row.
C21_SlashOnlyWhenAllowed ==
    \A auth \in Users \cup {NoAuth}, id \in 1..MaxMirror,
       reasonLength \in ReasonLengths :
        LET passes == /\ auth # NoAuth
                      /\ reasonLength >= 10 /\ reasonLength <= 500
                      /\ id <= Len(mirror)
                      /\ mirror[id].status = "confirmed"
                      /\ HasWriteAccess(auth)
        IN  /\ (SlashCheck(auth, id, reasonLength) = 200) <=> passes
            /\ \A signOk, githubOk \in BOOLEAN :
                  LET r == SlashReply(auth, id, reasonLength, signOk, githubOk)
                  IN  /\ r.signature # NoSig => passes
                      /\ r.signature # NoSig =>
                            r.signature =
                               CreateSlashSignature(mirror[id].onchainId,
                                                    r.deadline)
                      /\ ~passes =>
                            /\ r.http \in {400, 401, 403, 404}
                            /\ ~ENABLED (/\ RequestSlash(auth, id, reasonLength,
                                                         signOk, githubOk)
                                         /\ mirror' # mirror)

C21_Witness ==
    /\ mlast.op = "requestSlash"
    /\ mlast.http = 200
    /\ mlast.signature # NoSig
    /\ Len(mirror) = 1
    /\ mirror[1].status = "slashed"
    /\ mirror[1].slashedById \in Maintainers
    /\ mirror[1].userId \notin Maintainers

\* C22: after any interleaving of POST /api/deposits requests, concurrent
\* requests for the same PR included, the mirror holds at most one deposit
\* record per PR, and a request for a PR that already has a record is
\* answered with an error and inserts nothing.
C22_DuplicateRejected ==
    \A auth \in Users \cup {NoAuth}, prId \in PrIds, txHash \in TxHashes :
        (\E k \in 1..Len(mirror) : mirror[k].prId = prId)
            => /\ RecordCheck(auth, prId, txHash) \in {400, 401}
               /\ ~ENABLED (RecordDepositSelect(auth, prId, txHash, 0)
                            /\ <<mirror, handlers>>' # <<mirror, handlers>>)

C22_OneDepositPerPR ==
    /\ \A j, k \in 1..Len(mirror) :
           mirror[j].prId = mirror[k].prId => j = k
    /\ C22_DuplicateRejected

\* C23: confirmRefund takes effect at most once per deposit: a record
\* becomes `refunded', or gets a refundTxHash, only by a request of its owner
\* with a well-formed transaction reference while its status is `confirmed'
\* and no refund is confirmed yet; a later or concurrent second confirmRefund
\* leaves status and refundTxHash as they are.
C23_Accepted ==
    \A auth \in Users \cup {NoAuth}, id \in 1..MaxMirror, txHash \in TxHashes :
        ConfirmCheck(auth, id, txHash) = 200
            => /\ id <= Len(mirror)
               /\ auth = mirror[id].userId
               /\ txHash # "malformed"
               /\ mirror[id].status = "confirmed"
               /\ mirror[id].refundTxHash = Null

C23_TakesEffectOnce ==
    \A k \in 1..Len(mirror) :
        (\/ mirror'[k].refundTxHash # mirror[k].refundTxHash
         \/ mirror'[k].status = "refunded" /\ mirror[k].status # "refunded")
            => /\ mirror[k].status = "confirmed"
               /\ mirror[k].refundTxHash = Null

C23_ConfirmRefundOnce == []C23_Accepted /\ [][C23_TakesEffectOnce]_vars

\* C24: a mirror record's status only moves along
\* pending -> confirmed -> refunded | slashed | expired: under any
\* interleaving of the recordConfirmedDeposit, requestRefund, requestSlash
\* and confirmRefund handlers, a record that has become `refunded' or
\* `slashed' never changes status again.
C24_Successors(status) ==
    IF status = "pending" THEN {"pending", "confirmed"}
    ELSE IF status = "confirmed"
    THEN {"confirmed", "refunded", "slashed", "expired"}
    ELSE {status}

C24_StatusStep ==
    \A k \in 1..Len(mirror) :
        mirror'[k].status \in C24_Successors(mirror[k].status)

C24_TerminalStaysTerminal == [][C24_StatusStep]_vars

\* C25: a depositing contributor whose PR is merged can obtain a refund:
\* once a deposit is recorded for a PR, the PR's stored state comes to be
\* `merged' or `closed', so that requestRefund by the deposit's owner
\* returns a Refund signature.
C25_Recorded(prId) == \E k \in 1..Len(mirror) : mirror[k].prId = prId

C25_Refundable(prId) == prs[prId].state \in {"merged", "closed"}

C25_RefundObtainable ==
    \A prId \in PrIds : C25_Recorded(prId) ~> C25_Refundable(prId)

\* with the handlers run one at a time no reachable state has a recorded
\* deposit whose PR is `merged' or `closed', and no owner gets a signature
C25_NoRefundableState ==
    \A k \in 1..Len(mirror) :
        /\ ~C25_Refundable(mirror[k].prId)
        /\ RefundReply(mirror[k].userId, k, TRUE).http # 200

\* C26: refund and slash accept a signature exactly while now <= deadline:
\* a call with now > deadline fails with SignatureExpired and changes no
\* state, and a call at now = deadline is not rejected for expiry.
C26_ExpiryGuard ==
    \A i \in Ids, d \in DeadlineInputs, t \in Types :
        \A sig \in SignatureInputs(t, i, d) :
            (ErrorOf(t, i, d, sig) = "SignatureExpired") <=> (now > d)

C26_ExpiredChangesNothing ==
    (last'.op \in {"refund", "slash"} /\ last'.result = "SignatureExpired")
        => UNCHANGED <<ledgerVars, now>>

C26_AcceptedUntilDeadline ==
    []C26_ExpiryGuard /\ [][C26_ExpiredChangesNothing]_vars

\* a refund submitted at now = deadline went through
C26_Witness ==
    /\ last.op = "refund"
    /\ last.result = "ok"
    /\ now = StartTime + SigLifetime
    /\ deposits[last.depositId].status = "Refunded"
    /\ Digest("Refund", last.depositId, now) \in usedSignatures

\* C27: a refund or slash on an Active deposit with an unexpired deadline
\* and an unused digest, whose signature does not recover to the signing
\* authority, fails with InvalidSignature; the attempt does not mark the
\* digest as used, so a call with the same (depositId, deadline) and the
\* signer's signature still succeeds.
C27_Open(t, i, d) ==
    /\ deposits[i].status = "Active"
    /\ now <= d
    /\ Digest(t, i, d) \notin usedSignatures

C27_Guard ==
    \A i \in Ids, d \in DeadlineInputs, t \in Types :
        C27_Open(t, i, d) =>
            /\ \A sig \in SignatureInputs(t, i, d) \ {ValidSig(t, i, d)} :
                  ErrorOf(t, i, d, sig) = "InvalidSignature"
            /\ i < nextDepositId => ErrorOf(t, i, d, ValidSig(t, i, d)) = "ok"

C27_RejectedChangesNothing ==
    (last'.op \in {"refund", "slash"} /\ last'.result = "InvalidSignature")
        => UNCHANGED <<ledgerVars, now>>

C28_Guard ==
    \A caller \in Users :
        /\ \A treasury \in Treasuries :
              DepositError(caller, treasury, 0) = "InvalidAmount"
        /\ \A amount \in Amounts \ {0} :
              DepositError(caller, ZeroAddress, amount) = "InvalidAddress"

C28_RejectedChangesNothing ==
    (last'.op = "deposit" /\ last'.result # "ok")
        => /\ deposits' = deposits
           /\ nextDepositId' = nextDepositId
           /\ balances' = balances
           /\ last'.depositId = NoId

C28_InvalidDepositRejected ==
    []C28_Guard /\ [][C28_RejectedChangesNothing]_vars

\* bob's deposit with the null treasury was rejected after alice's went in
C28_Witness ==
    /\ last.op = "deposit"
    /\ last.caller = "bob"
    /\ last.result = "InvalidAddress"
    /\ nextDepositId = 1
    /\ deposits[0].depositor = "alice"
    /\ deposits[1] = EmptyDeposit
    /\ balances["bob"] = Stake
    /\ balances[Escrow] = Stake

\* C29: deposit ids are assigned sequentially and never reused: the k-th
\* successful deposit returns id k-1, nextDepositId equals the number of
\* successful deposits, and no two deposits share an id, whatever their
\* repository, PR number or depositor.
C29_Written(i) == deposits[i] # EmptyDeposit

\* the ids handed out so far are exactly 0 .. nextDepositId - 1
C29_IdsDense == \A i \in Ids : C29_Written(i) <=> i < nextDepositId

\* a successful deposit returns the old nextDepositId, a fresh id, and adds
\* one to nextDepositId; no other step changes nextDepositId
C29_NextId ==
    IF last'.op = "deposit" /\ last'.result = "ok"
    THEN /\ last'.depositId = nextDepositId
         /\ nextDepositId' = nextDepositId + 1
         /\ ~C29_Written(nextDepositId)
         /\ \A i \in Ids \ {nextDepositId} : deposits'[i] = deposits[i]
    ELSE nextDepositId' = nextDepositId

C29_SequentialIds == []C29_IdsDense /\ [][C29_NextId]_vars

\* two deposits for the same repository and PR hold ids 0 and 1
C29_Witness ==
    /\ last.op = "deposit"
    /\ last.result = "ok"
    /\ last.depositId = 1
    /\ nextDepositId = 2
    /\ deposits[0].depositor = "alice"
    /\ deposits[1].depositor = "bob"
    /\ deposits[0].repoId = deposits[1].repoId
    /\ deposits[0].prNumber = deposits[1].prNumber

\* C30: a successful deposit records depositor = caller, the given amount,
\* repoId, prNumber and treasury, timestamp = now and status Active;
\* afterwards refund, slash and claimTimeout change only the status of the
\* deposit they target (and the used-signature set): the other fields of
\* every deposit, and every field of every other deposit, stay as they are.
C30_Recorded ==
    (last'.op = "deposit" /\ last'.result = "ok") =>
        \E repoId \in RepoIds, prNumber \in PrNumbers,
           treasury \in Treasuries, amount \in Amounts :
            /\ deposits'[last'.depositId] =
                   [depositor |-> last'.caller, amount |-> amount,
                    repoId |-> repoId, prNumber |-> prNumber,
                    treasury |-> treasury, timestamp |-> now,
                    status |-> "Active"]
            /\ balances'[Escrow] = balances[Escrow] + amount
            /\ balances'[last'.caller] = balances[last'.caller] - amount

C30_Frame ==
    \A i \in Ids :
        i < nextDepositId =>
            /\ [deposits'[i] EXCEPT !.status = deposits[i].status] = deposits[i]
            /\ deposits'[i].status # deposits[i].status
                  => /\ last'.op \in SettleOps
                     /\ last'.result = "ok"
                     /\ last'.depositId = i

C30_FieldsImmutable == [][C30_Recorded /\ C30_Frame]_vars

\* deposit 0 was slashed while deposit 1 stands: both keep what was recorded
C30_Witness ==
    /\ last.op = "slash"
    /\ last.result = "ok"
    /\ last.depositId = 0
    /\ nextDepositId = 2
    /\ deposits[0] = [depositor |-> "alice", amount |-> Stake,
                      repoId |-> "owner/repo", prNumber |-> 42,
                      treasury |-> TreasuryAddr, timestamp |-> StartTime,
                      status |-> "Slashed"]
    /\ deposits[1].depositor = "bob"
    /\ deposits[1].status = "Active"

\* C31: in every reachable state and for every deposit id, canClaimTimeout
\* returns true exactly when a claimTimeout call on the id would succeed;
\* for a created Active deposit that is false before createdAt + 30 days
\* and true from then on.
C31_CreatedAgree ==
    \A i \in Ids :
        i < nextDepositId =>
            /\ CanClaimTimeout(i) <=> ClaimTimeoutError(i) = "ok"
            /\ deposits[i].status = "Active" =>
                  (CanClaimTimeout(i) <=>
                       now >= deposits[i].timestamp + TIMEOUT_DURATION)

C31_CanClaimIffClaimSucceeds ==
    /\ \A i \in Ids : CanClaimTimeout(i) <=> ClaimTimeoutError(i) = "ok"
    /\ C31_CreatedAgree

\* C32: timeUntilTimeout(id) equals max(0, createdAt + 30 days - now): it
\* is never negative, it is 0 exactly when now >= createdAt + 30 days, and
\* as time advances it never increases.
C32_Max(a, b) == IF a >= b THEN a ELSE b

C32_Value ==
    \A i \in Ids :
        LET due == deposits[i].timestamp + TIMEOUT_DURATION
        IN  /\ TimeUntilTimeout(i) = C32_Max(0, due - now)
            /\ TimeUntilTimeout(i) >= 0
            /\ TimeUntilTimeout(i) = 0 <=> now >= due

C32_NeverIncreases ==
    \A i \in Ids :
        i < nextDepositId => TimeUntilTimeout(i)' <= TimeUntilTimeout(i)

C32_RemainingTime == []C32_Value /\ [][C32_NeverIncreases]_vars

\* one hour after the deposit, one hour less than 30 days remains
C32_Witness ==
    /\ last.op = "warp"
    /\ nextDepositId > 0
    /\ deposits[0].timestamp = StartTime
    /\ now = StartTime + SigLifetime
    /\ TimeUntilTimeout(0) = TIMEOUT_DURATION - SigLifetime

\* C33: issued authorizations expire on their own: every signature the
\* orchestrator issues at time t is bound to the deadline t + 3600 seconds,
\* and no issued signature can move a deposit later than one hour after its
\* issue; nothing else revokes a signature.
C33_Signed(response) == response.http = 200 /\ response.signature # NoSig

C33_TypeOf(response) ==
    IF response.op = "requestRefund" THEN "Refund" ELSE "Slash"

\* what a route would answer now carries now + 3600, inside the signed digest
C33_BoundToDeadline ==
    /\ \A auth \in Users, id \in 1..MaxMirror :
          LET r == RefundReply(auth, id, TRUE)
          IN  C33_Signed(r) =>
                  /\ r.deadline = now + SigLifetime
                  /\ r.signature = SignMessageRaw(SignerKey,
                         Digest("Refund", r.depositId, now + SigLifetime))
    /\ \A auth \in Users, id \in 1..MaxMirror :
          LET r == SlashReply(auth, id, 10, TRUE, TRUE)
          IN  C33_Signed(r) =>
                  /\ r.deadline = now + SigLifetime
                  /\ r.signature = SignMessageRaw(SignerKey,
                         Digest("Slash", r.depositId, now + SigLifetime))

\* the response last issued: its deadline is its issue time plus one hour,
\* and past that deadline it is refused as expired, even a signature the
\* ledger would otherwise accept
C33_ExpiredInert ==
    C33_Signed(mlast) =>
        /\ mlast.deadline <= now + SigLifetime
        /\ now > mlast.deadline =>
              \A sig \in {mlast.signature,
                          ValidSig(C33_TypeOf(mlast), mlast.depositId,
                                   mlast.deadline)} :
                  ErrorOf(C33_TypeOf(mlast), mlast.depositId,
                          mlast.deadline, sig) = "SignatureExpired"

\* submitting the response: past its deadline nothing moves
C33_RelayStep ==
    (C33_Signed(mlast) /\ last' # last /\ last'.op \in {"refund", "slash"})
        => /\ last'.result = "ok" => now <= mlast.deadline
           /\ now > mlast.deadline
                 => last'.result = "SignatureExpired" /\ UNCHANGED ledgerVars

C33_ExpiresOnItsOwn ==
    /\ []C33_BoundToDeadline
    /\ []C33_ExpiredInert
    /\ [][C33_RelayStep]_vars

\* a slash signature submitted after its hour was refused
C33_Witness ==
    /\ C33_Signed(mlast)
    /\ mlast.op = "requestSlash"
    /\ now > mlast.deadline
    /\ last.op = "slash"
    /\ last.depositId = mlast.depositId
    /\ last.result = "SignatureExpired"
    /\ deposits[last.depositId].status = "Active"
    /\ last.depositId < nextDepositId

\* C34: the signing authority fails closed: with the signer key absent or
\* invalid, every createRefundSignature and createSlashSignature call raises
\* an error and produces no signature, and the orchestrator answers with an
\* error instead of a signature.
C34_NoKey == KeyMaterials \ Keys

C34_SignerRefuses ==
    \A keyMaterial \in C34_NoKey, type \in Types, depositId \in Ids,
       deadline \in DeadlineInputs \cup {now + SigLifetime} :
        /\ CreateSignatureWith(keyMaterial, type, depositId, deadline)
               = SignerNotConfigured
        /\ ~SigningOk(keyMaterial, TRUE)

C34_RoutesAnswerError ==
    \A keyMaterial \in C34_NoKey, auth \in Users \cup {NoAuth},
       id \in 1..MaxMirror, githubOk \in BOOLEAN :
        LET signOk == SigningOk(keyMaterial, TRUE)
            refund == RefundReply(auth, id, signOk)
            slash == SlashReply(auth, id, 10, signOk, githubOk)
        IN  /\ refund.http \in {400, 401, 403, 404, 500}
            /\ refund.signature = NoSig
            /\ slash.http \in {400, 401, 403, 404, 500}
            /\ slash.signature = NoSig
            /\ SlashCheck(auth, id, 10) = 200 => slash.http = 500
            /\ ~ENABLED (RequestSlash(auth, id, 10, signOk, githubOk)
                         /\ mirror' # mirror)

C34_FailsClosed == C34_SignerRefuses /\ C34_RoutesAnswerError

\* the owner of a refundable deposit was answered 500: signing had failed
C34_Witness ==
    /\ mlast = Response("requestRefund", 500)
    /\ \E id \in 1..Len(mirror) :
          /\ mirror[id].status = "confirmed"
          /\ prs[mirror[id].prId].state = "merged"
          /\ RefundReply(mirror[id].userId, id,
                         SigningOk("absent", TRUE)) = mlast

\* C35: refund and slash evaluate their four preconditions in the order
\* deadline, status, digest unused, signer: when several fail at once the
\* error is that of the first failing one (SignatureExpired,
\* DepositNotActive, SignatureAlreadyUsed, InvalidSignature), and a call
\* succeeds only if all four hold.
C35_Failing(t, i, d, sig) ==
    <<now > d,
      deposits[i].status # "Active",
      Digest(t, i, d) \in usedSignatures,
      sig # ValidSig(t, i, d)>>

C35_Errors ==
    <<"SignatureExpired", "DepositNotActive", "SignatureAlreadyUsed",
      "InvalidSignature">>

C35_FirstFailing(failing) ==
    IF \E k \in 1..4 : failing[k]
    THEN CHOOSE k \in 1..4 : failing[k] /\ \A j \in 1..(k - 1) : ~failing[j]
    ELSE 0

C36_DepositKeepsPrOpen ==
    \A k \in 1..Len(mirror) : prs[mirror[k].prId].state # "pending_deposit"

\* C37: refund, slash and claimTimeout on a deposit id that deposit() has
\* not returned change no state and move no funds; a deposit later created
\* under that id starts Active with its full 30-day window, and no earlier
\* call on the id has settled it, timed it out or used one of its digests.
C37_Untouched(i) ==
    /\ deposits[i] = EmptyDeposit
    /\ payouts[i] = <<>>
    /\ \A t \in Types, d \in DeadlineInputs :
          Digest(t, i, d) \notin usedSignatures

C37_UnissuedUntouched ==
    \A i \in Ids : i >= nextDepositId => C37_Untouched(i)

C37_CallOnUnissued ==
    (last'.op \in SettleOps /\ last'.depositId >= nextDepositId)
        => /\ last'.result # "ok"
           /\ UNCHANGED ledgerVars

C37_StartsFresh ==
    (last'.op = "deposit" /\ last'.result = "ok")
        => /\ C37_Untouched(last'.depositId)
           /\ deposits'[last'.depositId].status = "Active"
           /\ deposits'[last'.depositId].timestamp = now
           /\ \A i \in Ids :
                 i = last'.depositId
                     => /\ ~CanClaimTimeout(i)'
                        /\ TimeUntilTimeout(i)' = TIMEOUT_DURATION
           /\ \A t \in Types, d \in DeadlineInputs :
                 Digest(t, last'.depositId, d) \notin usedSignatures'

C38_StatusOf(type) == IF type = "Refund" THEN "Refunded" ELSE "Slashed"

C38_UsedOf(type, i) ==
    {d \in DeadlineInputs : Digest(type, i, d) \in usedSignatures}

C38_DigestsBelongToSettled ==
    \A h \in usedSignatures :
        \E type \in Types, i \in Ids, d \in DeadlineInputs :
            /\ h = Digest(type, i, d)
            /\ deposits[i].status = C38_StatusOf(type)

C38_OneDigestPerSettled ==
    \A i \in Ids, type \in Types :
        /\ deposits[i].status = C38_StatusOf(type)
               => Cardinality(C38_UsedOf(type, i)) = 1
        /\ deposits[i].status # C38_StatusOf(type) => C38_UsedOf(type, i) = {}

C38_UsedImpliesNotActive ==
    \A i \in Ids, type \in Types, d \in DeadlineInputs :
        (i < nextDepositId /\ Digest(type, i, d) \in usedSignatures)
            => /\ deposits[i].status # "Active"
               /\ \A sig \in SignatureInputs(type, i, d) :
                      ErrorOf(type, i, d, sig)
                          \in {"SignatureExpired", "DepositNotActive"}

C38_ClaimTimeoutAddsNone ==
    last'.op = "claimTimeout" => usedSignatures' = usedSignatures

C38_UsedCheckNeverDecides ==
    last'.op \in {"refund", "slash"} => last'.result # "SignatureAlreadyUsed"

C38_UsedSetMatchesStatus ==
    /\ [](C38_DigestsBelongToSettled /\ C38_OneDigestPerSettled
            /\ C38_UsedImpliesNotActive)
    /\ [][C38_ClaimTimeoutAddsNone /\ C38_UsedCheckNeverDecides]_vars

C38_Witness ==
    /\ deposits[0].status = "Refunded"
    /\ deposits[1].status = "TimedOut"
    /\ usedSignatures =
           {Digest("Refund", 0, StartTime + TIMEOUT_DURATION + SigLifetime)}
    /\ now <= StartTime + TIMEOUT_DURATION + SigLifetime
    /\ last.op = "refund"
    /\ last.depositId = 0
    /\ last.result = "DepositNotActive"

\* C39: eligibility for the timeout exit does not disable signed
\* settlement. For a created Active deposit with now >= createdAt + 30
\* days, a refund and a slash carrying the signer's unexpired signature
\* are both still accepted, next to claimTimeout; a slash accepted in that
\* state pays the stake to the treasury and closes the timeout exit, and a
\* claimTimeout accepted first closes both signed settlements.
C39_PastTimeout(i) == i < nextDepositId /\ CanClaimTimeout(i)

C39_StillSettleable ==
    \A i \in Ids, type \in Types, d \in DeadlineInputs :
        (C39_PastTimeout(i) /\ now <= d)
            => /\ ErrorOf(type, i, d, ValidSig(type, i, d)) = "ok"
               /\ ClaimTimeoutError(i) = "ok"

C39_SlashWins ==
    \A i \in Ids :
        (/\ C39_PastTimeout(i)
         /\ last'.op = "slash" /\ last'.depositId = i /\ last'.result = "ok")
            => /\ deposits'[i].status = "Slashed"
               /\ balances'[deposits[i].treasury] =
                      balances[deposits[i].treasury] + deposits[i].amount
               /\ balances'[deposits[i].depositor] =
                      balances[deposits[i].depositor]
               /\ ~CanClaimTimeout(i)'
               /\ ClaimTimeoutError(i)' = "DepositNotActive"

C39_ClaimWins ==
    \A i \in Ids :
        (/\ C39_PastTimeout(i)
         /\ last'.op = "claimTimeout" /\ last'.depositId = i
         /\ last'.result = "ok")
            => \A type \in Types, d \in DeadlineInputs :
                   ErrorOf(type, i, d, ValidSig(type, i, d))'
                       \in {"SignatureExpired", "DepositNotActive"}

C39_TimeoutKeepsSettlementOpen ==
    /\ []C39_StillSettleable
    /\ [][C39_SlashWins /\ C39_ClaimWins]_vars

C39_Witness ==
    /\ last.op = "slash"
    /\ last.result = "ok"
    /\ last.depositId = 0
    /\ deposits[0].status = "Slashed"
    /\ now >= deposits[0].timestamp + TIMEOUT_DURATION
    /\ payouts[0] # <<>>
    /\ payouts[0][1].to = TreasuryAddr
    /\ balances[TreasuryAddr] = Stake

\* C40: no two mirror deposit records reference the same on-chain deposit
\* id, every record references the on-chain deposit its own user made, and
\* every settlement signature the orchestrator has issued is over the
\* on-chain deposit made by the user of a record that references it.
C40_UniqueOnchainIds ==
    \A j, k \in 1..Len(mirror) :
        j # k => mirror[j].onchainId # mirror[k].onchainId

C40_OwnDeposit(k) ==
    /\ mirror[k].onchainId < nextDepositId
    /\ deposits[mirror[k].onchainId].depositor = mirror[k].userId

C40_RecordsOwnDeposit == \A k \in 1..Len(mirror) : C40_OwnDeposit(k)

C40_IssuedOverOwnDeposit ==
    mlast.signature # NoSig
        => \A k \in 1..Len(mirror) :
               mirror[k].onchainId = mlast.depositId => C40_OwnDeposit(k)

C40_SignaturesOverOwnDeposit ==
    /\ C40_UniqueOnchainIds
    /\ C40_RecordsOwnDeposit
    /\ C40_IssuedOverOwnDeposit

====
